---- MODULE Spec2Model ----
(***************************************************************************)
(* A state-machine model of the anssl edge agent (https-cert/deploy):      *)
(*   - the supervised daemon runtime (cmd: runSupervisor, StopDaemon, the  *)
(*     worker's start command and its UPDATE_VERSION handler);             *)
(*   - the ACME HTTP-01 challenge server and its challenge cache           *)
(*     (internal/server);                                                  *)
(*   - the certificate deployment pipeline and its installers              *)
(*     (internal/client/deploys);                                          *)
(*   - the control channel: the reconnect loop and the message handlers    *)
(*     of the bidi-stream client and of the WebSocket client               *)
(*     (internal/client);                                                  *)
(* Each component has its own group of variables and its own               *)
(* specification; the actions of one component leave the others alone.     *)
(***************************************************************************)
EXTENDS Integers, Sequences, FiniteSets, TLC

(***************************************************************************)
(* Bounds of the model (not program constants).                            *)
(***************************************************************************)
\* workers the supervisor may spawn in one run: MaxCrashLoop as long as every
\* worker so far crashed within 10 s of its start and nothing else happened
\* (no signal, no stop command, no failed start), MaxSpawns otherwise
MaxSpawns == 2
MaxCrashLoop == 32
\* failed cmd.Start() calls in one run
MaxStartFails == 1
\* invocations of StopDaemon (the stop command) in one run
MaxStops == 1
\* the clock of the challenge cache, in minutes: it advances in steps of
\* TickStep up to MaxClock
TickStep == 5
MaxClock == 20
\* control streams one run may open, inbound frames it may receive, and
\* connection attempts that may fail in a row: MaxDialFails as long as no
\* frame was received in the run, MaxBusyDialFails afterwards
MaxStreams == 2
MaxFrames == 2
MaxDialFails == 8
MaxBusyDialFails == 1
\* entries of a zip archive, and components of an entry name
MaxEntries == 2
MaxPathLen == 3
\* CHALLENGE messages whose handler goroutine has not run yet
MaxPending == 2
\* certificates of an ESA site
MaxRecords == 2
\* lines of a checksums.txt
MaxLines == 2
\* bytes of the client-id cache file
MaxCacheLen == 3

(***************************************************************************)
(* Program constants.                                                      *)
(***************************************************************************)
\* the signal goroutine polls the child 50 times, 100 ms apart (5 s)
KillPolls == 50
\* maxRestartDelay, in seconds
MaxRestartDelay == 30
\* SetChallenge: entries live for time.Minute*10
ChallengeTTL == 10
\* minReconnectDelay, maxReconnectDelay (seconds) and fastReconnectAttempt
MinReconnectDelay == 1
MaxReconnectDelay == 30
FastReconnectAttempt == 3

Min(a, b) == IF a < b THEN a ELSE b

(***************************************************************************)
(* Supervisor runtime: state.                                              *)
(***************************************************************************)
VARIABLES
    supPc,          \* main goroutine of runSupervisor: "loop", "start", "publish",
                    \* "wait", "reaped", "sleep", "exited"
    supExit,        \* how the supervisor process ended: "none", "marker", "clean", "signal"
    sigPc,          \* signal goroutine: "idle", "read", "term", "poll", "kill", "cleanup"
    sigPending,     \* a SIGTERM/SIGINT is queued in sigCh
    sigI,           \* the goroutine's loop counter i
    sigChild,       \* the goroutine's local child (0 = nil)
    currentChild,   \* the shared currentChild (0 = nil)
    childId,        \* number of workers spawned so far; the id of the latest
    childSt,        \* latest worker: "none", "starting", "running", "marked",
                    \* "stopping", "dead"
    childExit,      \* exit status of a dead worker: "zero", "nonzero"
    pidFile,        \* {homeDir}/.anssl.pid exists
    stopMarker,     \* {homeDir}/.anssl-stop exists
    updateMarker,   \* {execDir}/.anssl-updated exists
    consecutiveFailures,
    restartDelay,   \* seconds
    startFails,     \* failed cmd.Start() calls so far
    stopdPc,        \* StopDaemon: "idle", "read", "signal", "waiting", "done", "error"
    stopdRuns,      \* StopDaemon invocations so far
    extSent,        \* an operator-sent SIGTERM (kill, service manager) was delivered
    \* history (not program state)
    hUpdated,       \* the latest worker wrote the update marker
    hKilled,        \* the latest worker was SIGKILLed by the supervisor
    hForwarded,     \* ids of the workers the supervisor sent SIGTERM to
    hMarkerChild,   \* id of the worker that was alive when the stop marker was written (0 = none)
    hZeroExit       \* what the zero-exit branch saw for the last reaped worker:
                    \* "na" (not taken), "present", "absent"

supVars == <<supPc, supExit, sigPc, sigPending, sigI, sigChild, currentChild, childId,
             childSt, childExit, pidFile, stopMarker, updateMarker,
             consecutiveFailures, restartDelay, startFails, stopdPc, stopdRuns, extSent,
             hUpdated, hKilled, hForwarded, hMarkerChild, hZeroExit>>

(***************************************************************************)
(* Challenge server: state.                                                *)
(***************************************************************************)
VARIABLES
    challenges,     \* ChallengeCache.challenges: token -> entry
    now,            \* time.Now(), in minutes
    httpReply,      \* the last answer of handleACMEChallenge, with the request's token
    schedPc,        \* scheduler.Start: "waiting" (on ctx.Done), "returned"
    srvPc,          \* the goroutine of HTTPServer.Start: "init", "listening",
                    \* "returned"
    sweepPc,        \* the goroutine of cleanupExpiredChallenges: "ticking",
                    \* "returned"
    httpServer,     \* Client.httpServer / WSClient.httpServer is not nil
    pending,        \* the CHALLENGE messages whose goroutine (go c.handleChallenge)
                    \* was started by handleMessage and has not run yet
    \* history (not program state)
    hLastMsg,       \* token -> the last CHALLENGE message passed on to the
                    \* server for it: op "none", "set" or "evict", its
                    \* response, the time
    hArrived,       \* token -> "none", "set" or "evict": the last CHALLENGE
                    \* message received for it
    hDropped        \* "none", "set" or "evict": the last CHALLENGE message with
                    \* a token that was dropped because httpServer was nil

chalVars == <<challenges, now, httpReply, schedPc, srvPc, sweepPc, hLastMsg, httpServer, pending, hArrived, hDropped>>

(***************************************************************************)
(* Deployment pipeline: state.                                             *)
(***************************************************************************)
VARIABLES
    enabled,        \* the local targets switched on in the configuration
    prev,           \* what every target directory held before the deployment:
                    \* "absent" or "old"
    tgt,            \* target -> contents of its directory for the domain: "absent",
                    \* "old", "empty", "partial", "new"
    zipFile,        \* {CertsDir}/{safeDomain}_certificates.zip exists
    extractDir,     \* {CertsDir}/{safeDomain}: "none" or "full"
    depPc,          \* position of DeployCertificate
    depResult,      \* its return value: "none" (running), "ok", "err"
    depFailedAt,    \* the installer that returned the error ("" = none)
    req,            \* the EXECUTE_BUSINES request: [domain, provider, type]
    bundle,         \* the file names in the downloaded zip
    reload,         \* nginx / apache -> outcome of the config test and reload
    depReply        \* the RequestResult sent back ("none" = not yet)

depVars == <<enabled, prev, tgt, zipFile, extractDir, depPc, depResult, depFailedAt,
             req, bundle, reload, depReply>>

(***************************************************************************)
(* Control channel: state.                                                 *)
(***************************************************************************)
VARIABLES
    transport,      \* "bidi" (Client, connect-go stream) or "ws" (WSClient)
    chanPc,         \* the reconnect loop: "top", "register", "serving", "closing",
                    \* "sleep", "stopped"
    cancelled,      \* c.ctx is done
    streamN,        \* control streams opened so far; the id of the latest
    streamSt,       \* stream id -> "none", "open", "stalled" (silent), "broken"
                    \* (failed, not yet closed by the agent), "closed"
    cur,            \* the loop's stream / WSClient.conn (0 = nil)
    connFailures,   \* the loop's consecutiveFailures
    reconnectDelay, \* seconds
    frameN,         \* inbound frames received so far; the id of the latest
    frames,         \* frame id -> the frame and the goroutine handling it
    busyOperations,
    hb,             \* stream id -> the heartbeat goroutine started for the stream:
                    \* pc "none", "waiting" (in select), "sending", "returned",
                    \* and the stream its send in progress writes to
    \* history (not program state)
    hTemporary      \* isTemporaryError of the last failed dial (TRUE when the
                    \* last attempt did not fail at the dial)

chanVars == <<transport, chanPc, cancelled, streamN, streamSt, cur, connFailures,
              reconnectDelay, frameN, frames, busyOperations, hb, hTemporary>>

(***************************************************************************)
(* Zip extraction: state.                                                  *)
(***************************************************************************)
VARIABLES
    zipEntries,     \* reader.File: the entry names of the archive, in order, each
                    \* split at the separator
    zipIdx,         \* the entry ExtractZip's loop is at
    zipCreated,     \* the cleaned paths at which a file or directory was created
    zipPc           \* ExtractZip: "extracting", "ok" (returned nil), "error"

zipVars == <<zipEntries, zipIdx, zipCreated, zipPc>>

(***************************************************************************)
(* Aliyun ESA upload: state.  A string is the sequence of its characters.  *)
(***************************************************************************)
VARIABLES
    esaCerts,       \* the certificates of the site as ListCertificates returns
                    \* them, in order: records of Name, Id, Type, Fingerprint
    esaName,        \* uploadESACertificate: the name argument
    esaCert,        \* ... and the fingerprint of the cert argument
    esaPc,          \* "first", "resolve", "retry", "fallback", "ok" (returned
                    \* nil), "error"
    existingID,     \* the ID the duplicate was resolved to
    hByName,        \* what selectESACertificateIDByName returned
    hResolved,      \* how the ID was resolved: "none", "name", "cert", "failed"
    hVia,           \* the SetCertificate call that succeeded: "first", "id",
                    \* "fallback"
    hFallback       \* the fallback name of the last call under one

esaVars == <<esaCerts, esaName, esaCert, esaPc, existingID, hByName, hResolved, hVia,
             hFallback>>

(***************************************************************************)
(* Self-update: state.                                                     *)
(***************************************************************************)
VARIABLES
    release,        \* the latest release: whether its tag is newer than the
                    \* running version, and the names of its assets
    archiveSum,     \* the SHA-256 of what the download URL serves
    checksums,      \* what the checksum URL serves: lines, each the sequence
                    \* of its fields
    info,           \* the UpdateInfo CheckUpdate returned: DownloadURL and
                    \* ChecksumURL ("" when the release has no such asset)
    updPc,          \* "check", "download", "verify", "replace", "done"
                    \* (returned nil), "none" (no update), "error"
    execFile,       \* the executable at execPath: "old" or "new"
    hVerified       \* verifyChecksum returned nil for the downloaded archive

updVars == <<release, archiveSum, checksums, info, updPc, execFile, hVerified>>

(***************************************************************************)
(* Client id: state.                                                       *)
(***************************************************************************)
VARIABLES
    cacheFile,      \* the file at cachePath(): <<"absent">>, or its bytes
    hostInputs,     \* OS, architecture, host name and hardware id of the host
    clientId,       \* what GetUniqueClientID returned (<<"none">> before the call)
    hCached         \* the file as GetUniqueClientID found it

cidVars == <<cacheFile, hostInputs, clientId, hCached>>

(***************************************************************************)
(* Concurrent deployments of one domain: state.                            *)
(***************************************************************************)
VARIABLES
    dcPc,           \* per deployment, where DeployCertificate is: "received",
                    \* "download", "extract", "remove_old", "rename", "return"
                    \* (both deferred calls are due), "return_zip" (only the
                    \* one for the zip), "done"
    dcResult,       \* ... and the result its handler reports
    sharedZip,      \* certs/{safeDomain}_certificates.zip: "absent", or
                    \* the deployment whose download it holds
    sharedDir,      \* certs/{safeDomain}: "absent", or the deployment
                    \* whose bundle was extracted into it
    nginxDir,       \* {nginxPath}/{safeDomain}: "old", "absent", or the
                    \* deployment whose bundle it holds
    hInterfered     \* a deployment removed or overwrote the zip or the
                    \* scratch directory while the other one was using it

conVars == <<dcPc, dcResult, sharedZip, sharedDir, nginxDir, hInterfered>>

vars == <<supVars, chalVars, depVars, chanVars, zipVars, esaVars, updVars, cidVars, conVars>>

\* what the actions of one component leave alone: the other components
SupFrame == UNCHANGED <<chalVars, depVars, chanVars, zipVars, esaVars, updVars, cidVars, conVars>>
ChalFrame == UNCHANGED <<supVars, depVars, chanVars, zipVars, esaVars, updVars, cidVars, conVars>>
DepFrame == UNCHANGED <<supVars, chalVars, chanVars, zipVars, esaVars, updVars, cidVars, conVars>>
ChanFrame == UNCHANGED <<supVars, chalVars, depVars, zipVars, esaVars, updVars, cidVars, conVars>>
ZipFrame == UNCHANGED <<supVars, chalVars, depVars, chanVars, esaVars, updVars, cidVars, conVars>>
EsaFrame == UNCHANGED <<supVars, chalVars, depVars, chanVars, zipVars, updVars, cidVars, conVars>>
UpdFrame == UNCHANGED <<supVars, chalVars, depVars, chanVars, zipVars, esaVars, cidVars, conVars>>
CidFrame == UNCHANGED <<supVars, chalVars, depVars, chanVars, zipVars, esaVars, updVars, conVars>>
ConFrame == UNCHANGED <<supVars, chalVars, depVars, chanVars, zipVars, esaVars, updVars, cidVars>>

mainVars == <<supPc, consecutiveFailures, restartDelay, startFails, hZeroExit>>
sigVars == <<sigPc, sigI, sigChild>>
childVars == <<childId, childSt, childExit, hUpdated, hKilled>>
fileVars == <<pidFile, stopMarker, updateMarker>>
stopdVars == <<stopdPc, stopdRuns, hMarkerChild>>

SupAlive == supExit = "none"

ChildAlive == childSt \in {"starting", "running", "marked", "stopping"}

SupInit ==
    /\ supPc = "loop"
    /\ supExit = "none"
    /\ sigPc = "idle"
    /\ sigPending = FALSE
    /\ sigI = 0
    /\ sigChild = 0
    /\ currentChild = 0
    /\ childId = 0
    /\ childSt = "none"
    /\ childExit = "zero"
    /\ pidFile = TRUE
    /\ stopMarker = FALSE
    /\ updateMarker = FALSE
    /\ consecutiveFailures = 0
    /\ restartDelay = 1
    /\ startFails = 0
    /\ stopdPc = "idle"
    /\ stopdRuns = 0
    /\ extSent = FALSE
    /\ hUpdated = FALSE
    /\ hKilled = FALSE
    /\ hForwarded = {}
    /\ hMarkerChild = 0
    /\ hZeroExit = "na"

(***************************************************************************)
(* The worker process (cmd start, RunE) as the supervisor sees it.         *)
(***************************************************************************)
\* What SIGTERM does to a worker in state st: before signal.Notify is
\* registered the Go runtime's default disposition ends the process with a
\* non-zero status; afterwards RunE cancels the context and returns nil.
TermState(st) ==
    CASE st = "starting" -> "dead"
      [] st \in {"running", "marked", "stopping"} -> "stopping"
      [] OTHER -> st

TermExit(st, ex) == IF st = "starting" THEN "nonzero" ELSE ex

\* RunE up to signal.Notify: an update marker left on disk is removed.
WorkerStart ==
    /\ childSt = "starting"
    /\ childSt' = "running"
    /\ updateMarker' = FALSE
    /\ UNCHANGED <<mainVars, sigVars, stopdVars, supExit, sigPending, currentChild, extSent,
                   hForwarded, childId, childExit, hUpdated, hKilled, pidFile, stopMarker>>
    /\ SupFrame

\* variant of WorkerUpdateWriteMarker: the restart is triggered without the
\* marker having been written
WorkerUpdateWriteMarker_NoMarker ==
    /\ childSt = "running"
    /\ childSt' = "marked"
    /\ hUpdated' = TRUE
    /\ UNCHANGED <<mainVars, sigVars, stopdVars, fileVars, supExit, sigPending, currentChild,
                   extSent, hForwarded, childId, childExit, hKilled>>
    /\ SupFrame

\* HandleUpdate, up to and including os.WriteFile(markerFile): only an update
\* that was found, performed and whose marker could be written gets here; the
\* other outcomes return and leave the worker as it was.
WorkerUpdateWriteMarker ==
    /\ childSt = "running"
    /\ childSt' = "marked"
    /\ updateMarker' = TRUE
    /\ hUpdated' = TRUE
    /\ UNCHANGED <<mainVars, sigVars, stopdVars, supExit, sigPending, currentChild, extSent,
                   hForwarded, childId, childExit, hKilled, pidFile, stopMarker>>
    /\ SupFrame

\* HandleUpdate, process.Signal(SIGTERM) to itself (or, should that fail,
\* os.Exit(0) after 3 s): the worker starts its clean shutdown.
WorkerUpdateSignalSelf ==
    /\ childSt = "marked"
    /\ childSt' = "stopping"
    /\ UNCHANGED <<mainVars, sigVars, stopdVars, fileVars, supExit, sigPending, currentChild,
                   extSent, hForwarded, childId, childExit, hUpdated, hKilled>>
    /\ SupFrame

\* RunE returns nil after <-sigChan: exit status 0.
WorkerShutdown ==
    /\ childSt = "stopping"
    /\ childSt' = "dead"
    /\ childExit' = "zero"
    /\ UNCHANGED <<mainVars, sigVars, stopdVars, fileVars, supExit, sigPending, currentChild,
                   extSent, hForwarded, childId, hUpdated, hKilled>>
    /\ SupFrame

\* The worker dies on its own with a non-zero status (config.Init error,
\* logger.Fatal, a panic).
WorkerCrash ==
    /\ childSt \in {"starting", "running"}
    /\ childSt' = "dead"
    /\ childExit' = "nonzero"
    /\ UNCHANGED <<mainVars, sigVars, stopdVars, fileVars, supExit, sigPending, currentChild,
                   extSent, hForwarded, childId, hUpdated, hKilled>>
    /\ SupFrame

(***************************************************************************)
(* runSupervisor: the restart loop (main goroutine).                       *)
(***************************************************************************)
\* shouldStopSupervisor: os.Stat(stopMarker) == nil; the marker is removed
\* by the caller's step below when it returns true.
shouldStopSupervisor == stopMarker

\* variant of SupLoopTop: the stop marker is left on disk
SupLoopTop_KeepsMarker ==
    /\ SupAlive /\ supPc = "loop"
    /\ IF shouldStopSupervisor
         THEN /\ pidFile' = FALSE
              /\ supPc' = "exited"
              /\ supExit' = "marker"
              /\ UNCHANGED stopMarker
         ELSE /\ supPc' = "start"
              /\ UNCHANGED <<stopMarker, pidFile, supExit>>
    /\ UNCHANGED <<sigVars, childVars, stopdVars, sigPending, currentChild, extSent, hForwarded,
                   updateMarker, consecutiveFailures, restartDelay, startFails, hZeroExit>>
    /\ SupFrame

\* top of the for loop: the stop marker ends the supervisor
SupLoopTop ==
    /\ SupAlive /\ supPc = "loop"
    /\ IF shouldStopSupervisor
         THEN /\ stopMarker' = FALSE
              /\ pidFile' = FALSE
              /\ supPc' = "exited"
              /\ supExit' = "marker"
         ELSE /\ supPc' = "start"
              /\ UNCHANGED <<stopMarker, pidFile, supExit>>
    /\ UNCHANGED <<sigVars, childVars, stopdVars, sigPending, currentChild, extSent, hForwarded,
                   updateMarker, consecutiveFailures, restartDelay, startFails, hZeroExit>>
    /\ SupFrame

\* os.OpenFile(GetLogFile()) fails: sleep restartDelay and continue
SupOpenLogFail ==
    /\ SupAlive /\ supPc = "start"
    /\ supPc' = "sleep"
    /\ UNCHANGED <<sigVars, childVars, stopdVars, fileVars, supExit, sigPending, currentChild,
                   extSent, hForwarded, consecutiveFailures, restartDelay, startFails,
                   hZeroExit>>
    /\ SupFrame

\* cmd.Start() fails
SupStartFail ==
    /\ SupAlive /\ supPc = "start"
    /\ startFails < MaxStartFails
    /\ startFails' = startFails + 1
    /\ consecutiveFailures' = consecutiveFailures + 1
    /\ supPc' = "sleep"
    /\ UNCHANGED <<sigVars, childVars, stopdVars, fileVars, supExit, sigPending, currentChild,
                   extSent, hForwarded, restartDelay, hZeroExit>>
    /\ SupFrame

\* cmd.Start() succeeds: a new worker process exists
SupStartOk ==
    /\ SupAlive /\ supPc = "start"
    /\ LET crashLoop == /\ consecutiveFailures = childId
                        /\ startFails = 0 /\ stopdRuns = 0
                        /\ ~extSent /\ ~sigPending /\ sigPc = "idle"
                        /\ ~stopMarker /\ ~updateMarker
       IN  childId < (IF crashLoop THEN MaxCrashLoop ELSE MaxSpawns)
    /\ childId' = childId + 1
    /\ childSt' = "starting"
    /\ hUpdated' = FALSE
    /\ hKilled' = FALSE
    /\ supPc' = "publish"
    /\ UNCHANGED <<sigVars, stopdVars, fileVars, supExit, sigPending, currentChild, extSent,
                   hForwarded, childExit, consecutiveFailures, restartDelay, startFails,
                   hZeroExit>>
    /\ SupFrame

\* childMu.Lock(); currentChild = cmd.Process; childMu.Unlock()
SupPublish ==
    /\ SupAlive /\ supPc = "publish"
    /\ currentChild' = childId
    /\ supPc' = "wait"
    /\ UNCHANGED <<sigVars, childVars, stopdVars, fileVars, supExit, sigPending, extSent,
                   hForwarded, consecutiveFailures, restartDelay, startFails, hZeroExit>>
    /\ SupFrame

\* cmd.Wait() returns: the dead worker is reaped
SupWaitReturn ==
    /\ SupAlive /\ supPc = "wait"
    /\ childSt = "dead"
    /\ childSt' = "none"
    /\ supPc' = "reaped"
    /\ hZeroExit' = "na"
    /\ UNCHANGED <<sigVars, stopdVars, fileVars, supExit, sigPending, currentChild, extSent,
                   hForwarded, childId, childExit, hUpdated, hKilled, consecutiveFailures,
                   restartDelay, startFails>>
    /\ SupFrame

\* variant of SupNonZeroExit: the delay is not capped at maxRestartDelay
SupNonZeroExit_NoCap(uptimeShort) ==
    /\ consecutiveFailures' = IF uptimeShort THEN consecutiveFailures + 1 ELSE 0
    /\ restartDelay' = IF uptimeShort
                          THEN consecutiveFailures + 1
                          ELSE restartDelay
    /\ supPc' = IF uptimeShort THEN "sleep" ELSE "loop"
    /\ UNCHANGED <<fileVars, supExit, hZeroExit>>

\* err != nil: count the failure, back off after a short run
\* (uptimeShort: uptime < 10*time.Second)
SupNonZeroExit(uptimeShort) ==
    /\ consecutiveFailures' = IF uptimeShort THEN consecutiveFailures + 1 ELSE 0
    /\ restartDelay' = IF uptimeShort
                          THEN Min(consecutiveFailures + 1, MaxRestartDelay)
                          ELSE restartDelay
    /\ supPc' = IF uptimeShort THEN "sleep" ELSE "loop"
    /\ UNCHANGED <<fileVars, supExit, hZeroExit>>

\* variant of SupZeroExit: the update marker is not deleted before the respawn
SupZeroExit_KeepsUpdateMarker ==
    IF updateMarker
      THEN /\ consecutiveFailures' = 0
           /\ supPc' = "sleep"
           /\ hZeroExit' = "present"
           /\ UNCHANGED <<updateMarker, pidFile, stopMarker, supExit, restartDelay>>
      ELSE /\ pidFile' = FALSE
           /\ supPc' = "exited"
           /\ supExit' = "clean"
           /\ hZeroExit' = "absent"
           /\ UNCHANGED <<updateMarker, stopMarker, consecutiveFailures, restartDelay>>

\* err == nil: respawn after an update, else leave
SupZeroExit ==
    IF updateMarker
      THEN /\ updateMarker' = FALSE
           /\ consecutiveFailures' = 0
           /\ supPc' = "sleep"
           /\ hZeroExit' = "present"
           /\ UNCHANGED <<pidFile, stopMarker, supExit, restartDelay>>
      ELSE /\ pidFile' = FALSE
           /\ supPc' = "exited"
           /\ supExit' = "clean"
           /\ hZeroExit' = "absent"
           /\ UNCHANGED <<updateMarker, stopMarker, consecutiveFailures, restartDelay>>

\* after cmd.Wait(): currentChild = nil, then the branch on the exit status
SupAfterWait ==
    /\ SupAlive /\ supPc = "reaped"
    /\ currentChild' = 0
    /\ IF childExit = "nonzero"
         THEN \E uptimeShort \in BOOLEAN : SupNonZeroExit(uptimeShort)
         ELSE SupZeroExit
    /\ UNCHANGED <<sigVars, childVars, stopdVars, sigPending, extSent, hForwarded, startFails>>
    /\ SupFrame

\* time.Sleep(...) returns; continue
SupWake ==
    /\ SupAlive /\ supPc = "sleep"
    /\ supPc' = "loop"
    /\ UNCHANGED <<sigVars, childVars, stopdVars, fileVars, supExit, sigPending, currentChild,
                   extSent, hForwarded, consecutiveFailures, restartDelay, startFails,
                   hZeroExit>>
    /\ SupFrame

(***************************************************************************)
(* runSupervisor: the signal goroutine.                                    *)
(***************************************************************************)
\* sig := <-sigCh
SigReceive ==
    /\ SupAlive /\ sigPc = "idle" /\ sigPending
    /\ sigPending' = FALSE
    /\ sigPc' = "read"
    /\ UNCHANGED <<mainVars, childVars, stopdVars, fileVars, supExit, currentChild, extSent,
                   hForwarded, sigI, sigChild>>
    /\ SupFrame

\* childMu.Lock(); child := currentChild; childMu.Unlock(); if child != nil
SigReadChild ==
    /\ SupAlive /\ sigPc = "read"
    /\ sigChild' = currentChild
    /\ sigPc' = IF currentChild # 0 THEN "term" ELSE "cleanup"
    /\ UNCHANGED <<mainVars, childVars, stopdVars, fileVars, supExit, sigPending, currentChild,
                   extSent, hForwarded, sigI>>
    /\ SupFrame

\* child.Signal(syscall.SIGTERM); the process may already be gone
SigForwardTerm ==
    /\ SupAlive /\ sigPc = "term"
    /\ IF sigChild = childId /\ ChildAlive
         THEN /\ childSt' = TermState(childSt)
              /\ childExit' = TermExit(childSt, childExit)
              /\ hForwarded' = hForwarded \cup {sigChild}
         ELSE UNCHANGED <<childSt, childExit, hForwarded>>
    /\ sigI' = 0
    /\ sigPc' = "poll"
    /\ UNCHANGED <<mainVars, stopdVars, fileVars, supExit, sigPending, currentChild, extSent,
                   sigChild, childId, hUpdated, hKilled>>
    /\ SupFrame

\* child.Signal(syscall.Signal(0)) fails once the process was waited for
ChildGone(c) == c # childId \/ childSt = "none"

\* for i := 0; i < 50; i++ { time.Sleep(100ms); if Signal(0) != nil { break } }
SigPoll ==
    /\ SupAlive /\ sigPc = "poll"
    /\ IF sigI < KillPolls
         THEN IF ChildGone(sigChild)
                THEN sigPc' = "kill" /\ UNCHANGED sigI
                ELSE sigI' = sigI + 1 /\ UNCHANGED sigPc
         ELSE sigPc' = "kill" /\ UNCHANGED sigI
    /\ UNCHANGED <<mainVars, childVars, stopdVars, fileVars, supExit, sigPending, currentChild,
                   extSent, hForwarded, sigChild>>
    /\ SupFrame

\* child.Kill()
SigKill ==
    /\ SupAlive /\ sigPc = "kill"
    /\ IF sigChild = childId /\ ChildAlive
         THEN /\ childSt' = "dead"
              /\ childExit' = "nonzero"
              /\ hKilled' = TRUE
         ELSE UNCHANGED <<childSt, childExit, hKilled>>
    /\ sigPc' = "cleanup"
    /\ UNCHANGED <<mainVars, stopdVars, fileVars, supExit, sigPending, currentChild, extSent,
                   hForwarded, sigI, sigChild, childId, hUpdated>>
    /\ SupFrame

\* os.Remove(pidFile); os.Remove(stop marker); os.Exit(0)
SigCleanupExit ==
    /\ SupAlive /\ sigPc = "cleanup"
    /\ pidFile' = FALSE
    /\ stopMarker' = FALSE
    /\ supExit' = "signal"
    /\ supPc' = "exited"
    /\ UNCHANGED <<sigVars, childVars, stopdVars, sigPending, currentChild, extSent, hForwarded,
                   updateMarker, consecutiveFailures, restartDelay, startFails, hZeroExit>>
    /\ SupFrame

(***************************************************************************)
(* StopDaemon (the stop and restart commands) and other senders of SIGTERM.*)
(***************************************************************************)
\* os.WriteFile(stopMarker, "stop")
StopDaemonWriteMarker ==
    /\ stopdPc \in {"idle", "done", "error"}
    /\ stopdRuns < MaxStops
    /\ stopdRuns' = stopdRuns + 1
    /\ stopMarker' = TRUE
    /\ hMarkerChild' = IF ChildAlive THEN childId ELSE 0
    /\ stopdPc' = "read"
    /\ UNCHANGED <<mainVars, sigVars, childVars, supExit, sigPending, currentChild, extSent,
                   hForwarded, pidFile, updateMarker>>
    /\ SupFrame

\* os.ReadFile(pidFile): an error returns at once, the marker stays
StopDaemonReadPid ==
    /\ stopdPc = "read"
    /\ stopdPc' = IF pidFile THEN "signal" ELSE "error"
    /\ UNCHANGED <<mainVars, sigVars, childVars, fileVars, supExit, sigPending, currentChild,
                   extSent, hForwarded, stopdRuns, hMarkerChild>>
    /\ SupFrame

\* process.Signal(SIGTERM): to a supervisor that is gone it fails, and both
\* files are removed
StopDaemonSignal ==
    /\ stopdPc = "signal"
    /\ IF SupAlive
         THEN /\ sigPending' = TRUE
              /\ stopdPc' = "waiting"
              /\ UNCHANGED <<pidFile, stopMarker>>
         ELSE /\ pidFile' = FALSE
              /\ stopMarker' = FALSE
              /\ stopdPc' = "done"
              /\ UNCHANGED sigPending
    /\ UNCHANGED <<mainVars, sigVars, childVars, supExit, currentChild, extSent, hForwarded,
                   updateMarker, stopdRuns, hMarkerChild>>
    /\ SupFrame

\* the wait loop sees the supervisor gone: remove both files, return nil.
\* (The SIGKILL after ten unanswered seconds is not reached: the supervisor's
\* handler ends the process after at most 50 polls of 100 ms.)
StopDaemonWaitDone ==
    /\ stopdPc = "waiting"
    /\ ~SupAlive
    /\ pidFile' = FALSE
    /\ stopMarker' = FALSE
    /\ stopdPc' = "done"
    /\ UNCHANGED <<mainVars, sigVars, childVars, supExit, sigPending, currentChild, extSent,
                   hForwarded, updateMarker, stopdRuns, hMarkerChild>>
    /\ SupFrame

\* SIGTERM or SIGINT sent to the supervisor by anyone else
ExternalSigterm ==
    /\ SupAlive
    /\ ~extSent
    /\ extSent' = TRUE
    /\ sigPending' = TRUE
    /\ UNCHANGED <<mainVars, sigVars, childVars, stopdVars, fileVars, supExit, currentChild,
                   hForwarded>>
    /\ SupFrame

SupNext ==
    \/ WorkerStart
    \/ WorkerUpdateWriteMarker
    \/ WorkerUpdateSignalSelf
    \/ WorkerShutdown
    \/ WorkerCrash
    \/ SupLoopTop
    \/ SupOpenLogFail
    \/ SupStartFail
    \/ SupStartOk
    \/ SupPublish
    \/ SupWaitReturn
    \/ SupAfterWait
    \/ SupWake
    \/ SigReceive
    \/ SigReadChild
    \/ SigForwardTerm
    \/ SigPoll
    \/ SigKill
    \/ SigCleanupExit
    \/ StopDaemonWriteMarker
    \/ StopDaemonReadPid
    \/ StopDaemonSignal
    \/ StopDaemonWaitDone
    \/ ExternalSigterm


(***************************************************************************)
(* Supervisor runtime: properties.                                         *)
(***************************************************************************)

\* C4: once the supervisor has ended through its SIGTERM/SIGINT handler, no
\* worker process is left running, the PID file is gone, and the handler
\* polled at most 50 x 100 ms (so that everything is over within 6 s).
C4_SigtermStopsBoth ==
    supExit = "signal" => (~ChildAlive /\ ~pidFile /\ sigI <= KillPolls)

\* C7 (as claimed): a stop marker that appeared while a worker was running
\* makes the supervisor forward SIGTERM to that worker before it removes the
\* marker and exits.
C7_MarkerForwardsTerm ==
    (supExit = "marker" /\ hMarkerChild # 0) => hMarkerChild \in hForwarded

\* the step in which the supervisor ends because of the stop marker
C7_MarkerExitStep == supExit = "none" /\ supExit' = "marker"

\* C7 (amended): the stop marker is acted on only at the top of the restart
\* loop, when no worker exists: the supervisor removes the marker and the PID
\* file and exits without signalling anything. SIGTERM is forwarded to a
\* worker only by the signal goroutine, after a SIGTERM/SIGINT was sent to the
\* supervisor.
C7_MarkerActsAtLoopTop ==
    /\ [][C7_MarkerExitStep =>
             /\ supPc = "loop" /\ stopMarker /\ childSt = "none" /\ currentChild = 0
             /\ ~stopMarker' /\ ~pidFile'
             /\ hForwarded' = hForwarded /\ childSt' = childSt]_vars
    /\ [][hForwarded' # hForwarded => sigPc = "term"]_vars
    /\ [][(sigPc = "idle" /\ sigPc' # "idle") => sigPending]_vars
    /\ [][(~sigPending /\ sigPending') => (extSent' # extSent \/ stopdPc = "signal")]_vars

\* C7 witness: the marker was written while a worker ran, and the supervisor
\* ended on the marker
C7_Witness == supExit = "marker" /\ hMarkerChild # 0 /\ ~stopMarker /\ ~pidFile

\* C8 (as claimed): after a zero exit the supervisor respawns if and only if
\* the update marker is present: it never ends without a respawn when it
\* found the marker, and it ends when it did not.
C8_RespawnIffMarker ==
    /\ (hZeroExit = "present" /\ childSt = "none") => SupAlive
    /\ hZeroExit = "absent" => supExit = "clean"

\* a worker is spawned in this step
C8_SpawnStep == childId' = childId + 1

\* the zero-exit branch is taken in this step
C8_ZeroBranchStep ==
    supPc = "reaped" /\ childExit = "zero" /\ supPc' # "reaped" /\ supExit' # "signal"

\* C8 (amended): after a zero exit the supervisor goes on to respawn exactly
\* when it finds the update marker, which it deletes before any respawn; a
\* respawn follows unless a stop (the stop marker at the top of the loop, or
\* SIGTERM/SIGINT) ends the supervisor first. Without the marker it ends
\* without respawning.
C8_RespawnUnlessStopped ==
    /\ [][C8_ZeroBranchStep =>
             IF updateMarker
               THEN ~updateMarker' /\ supExit' = "none" /\ supPc' = "sleep"
               ELSE supExit' = "clean" /\ ~pidFile' /\ childId' = childId]_vars
    /\ [][(C8_SpawnStep /\ childId > 0 /\ childExit = "zero") =>
             (hZeroExit = "present" /\ ~updateMarker)]_vars
    /\ []((hZeroExit = "present" /\ childSt = "none" /\ ~SupAlive) =>
             supExit \in {"marker", "signal"})
    /\ [](hZeroExit = "absent" => (supExit = "clean" /\ childSt = "none"))

\* C8 witness: a worker respawned after a zero exit with the marker found
\* and deleted
C8_Witness ==
    childId >= 2 /\ childSt = "starting" /\ childExit = "zero" /\ hZeroExit = "present"
    /\ ~updateMarker

C9_HandleStep == C8_ZeroBranchStep /\ hUpdated

C27_CrashAlwaysRespawns ==
    (childId > 0 /\ childExit = "nonzero" /\ childSt = "none") => SupAlive

\* the non-zero branch is taken in this step
C27_CrashStep ==
    supPc = "reaped" /\ childExit = "nonzero" /\ supPc' # "reaped" /\ supExit' # "signal"

\* C27 (amended): on a non-zero exit with uptime below 10 s the supervisor
\* adds one to consecutiveFailures and sleeps min(consecutiveFailures, 30)
\* seconds; with a longer uptime it resets the counter and does not sleep;
\* in both cases it goes on to the top of the loop and does not exit in
\* this branch. The supervisor ends after a non-zero exit without a respawn
\* only on a stop (the stop marker at the top of the loop, SIGTERM/SIGINT).
C27_CrashBackoff ==
    /\ [][C27_CrashStep =>
             /\ supExit' = "none" /\ pidFile' = pidFile
             /\ IF supPc' = "sleep"
                  THEN /\ consecutiveFailures' = consecutiveFailures + 1
                       /\ restartDelay' = IF consecutiveFailures' <= 30
                                             THEN consecutiveFailures' ELSE 30
                  ELSE /\ supPc' = "loop"
                       /\ consecutiveFailures' = 0
                       /\ restartDelay' = restartDelay]_vars
    /\ [][(supPc = "sleep" /\ supPc' # "sleep" /\ supExit' = "none") => supPc' = "loop"]_vars
    /\ []((childId > 0 /\ childExit = "nonzero" /\ childSt = "none" /\ ~SupAlive) =>
             supExit \in {"marker", "signal"})

\* C27 witness: the 32nd worker in a row crashed early and the supervisor
\* sleeps the capped 30 s before the next respawn
C27_Witness ==
    /\ supPc = "sleep" /\ supExit = "none"
    /\ childExit = "nonzero" /\ childSt = "none"
    /\ consecutiveFailures = 32 /\ restartDelay = 30

\* C39: once StopDaemon has returned, with nil or with an error, the stop
\* marker file does not exist (so that no supervisor started later finds a
\* stale marker at the top of its loop).
C39_NoMarkerAfterStop ==
    stopdPc \in {"done", "error"} => ~stopMarker

(***************************************************************************)
(* Challenge server (internal/server/http_server.go).                      *)
(***************************************************************************)
\* challenge tokens as they arrive in a request path or a CHALLENGE message
Tokens == {"", "tokA", "tokB"}
\* key authorizations; "" in a CHALLENGE message asks for removal
Responses == {"", "respA", "respB"}

\* a token without a map entry
NoEntry == [present |-> FALSE, response |-> "", expiresAt |-> 0]

\* the body http.NotFound writes
NotFoundBody == "404 page not found"

ChalInit ==
    /\ challenges = [t \in Tokens |-> NoEntry]
    /\ now = 0
    /\ httpReply = [seq |-> 0, token |-> "", status |-> 0, body |-> ""]
    /\ schedPc = "waiting"
    /\ srvPc = "init"
    /\ sweepPc = "ticking"
    /\ hLastMsg = [t \in Tokens |-> [op |-> "none", response |-> "", at |-> 0]]
    /\ httpServer = FALSE
    /\ pending = {}
    /\ hArrived = [t \in Tokens |-> "none"]
    /\ hDropped = "none"

\* ChallengeCache.Set with the ttl SetChallenge passes
CacheSet(token, response) ==
    [challenges EXCEPT ![token] =
        [present |-> TRUE, response |-> response, expiresAt |-> now + ChallengeTTL]]

\* ChallengeCache.Delete
CacheDelete(token) == [challenges EXCEPT ![token] = NoEntry]

\* variant of CacheGet: an entry is returned whatever its age
CacheGet_NoExpiry(token) ==
    IF ~challenges[token].present
      THEN [response |-> "", found |-> FALSE]
      ELSE [response |-> challenges[token].response, found |-> TRUE]

\* ChallengeCache.Get: (response, found)
CacheGet(token) ==
    IF ~challenges[token].present
      THEN [response |-> "", found |-> FALSE]
      ELSE IF now > challenges[token].expiresAt
             THEN [response |-> "", found |-> FALSE]
             ELSE [response |-> challenges[token].response, found |-> TRUE]

\* the kind of a CHALLENGE message: one with an empty challengeResp asks for
\* the removal of the token
MsgKind(challengeResp) == IF challengeResp = "" THEN "evict" ELSE "set"

\* scheduler.NewScheduler: client.SetHTTPServer(httpServer), which follows
\* client.Start() and server.NewHTTPServer()
SetHTTPServer ==
    /\ ~httpServer
    /\ httpServer' = TRUE
    /\ UNCHANGED <<challenges, now, httpReply, schedPc, srvPc, sweepPc, hLastMsg,
                   pending, hArrived, hDropped>>
    /\ ChalFrame

\* handleMessage, case Type_CHALLENGE: go c.handleChallenge(...); the receive
\* loop goes on to the next frame
ReceiveChallenge(token, challengeResp) ==
    /\ Cardinality(pending) < MaxPending
    /\ [token |-> token, response |-> challengeResp] \notin pending
    /\ pending' = pending \cup {[token |-> token, response |-> challengeResp]}
    /\ hArrived' = [hArrived EXCEPT ![token] = MsgKind(challengeResp)]
    /\ UNCHANGED <<challenges, now, httpReply, schedPc, srvPc, sweepPc, hLastMsg,
                   httpServer, hDropped>>
    /\ ChalFrame

\* Client.handleChallenge / WSClient.handleChallenge, each run in a goroutine
\* of its own: the CHALLENGE message (token, challengeResp) is handled, at
\* once when it is not among the pending ones.  Without a server the message
\* is logged and dropped; one without a token is ignored.
HandleChallenge(token, challengeResp) ==
    /\ LET msg == [token |-> token, response |-> challengeResp]
       IN  /\ pending' = pending \ {msg}
           /\ hArrived' = IF msg \in pending THEN hArrived
                           ELSE [hArrived EXCEPT ![token] = MsgKind(challengeResp)]
    /\ IF ~httpServer
         THEN /\ hDropped' = IF token = "" THEN hDropped ELSE MsgKind(challengeResp)
              /\ UNCHANGED <<challenges, hLastMsg>>
         ELSE /\ challenges' = IF token = "" THEN challenges
                               ELSE IF challengeResp = "" THEN CacheDelete(token)
                               ELSE CacheSet(token, challengeResp)
              /\ hLastMsg' = [hLastMsg EXCEPT ![token] =
                                 [op |-> MsgKind(challengeResp),
                                  response |-> challengeResp, at |-> now]]
              /\ UNCHANGED hDropped
    /\ UNCHANGED <<now, httpReply, schedPc, srvPc, sweepPc, httpServer>>
    /\ ChalFrame

\* HTTPServer.handleACMEChallenge for the request path /acme-challenge/{token}
HandleACMEChallenge(token) ==
    /\ srvPc = "listening"
    /\ httpReply' =
         IF token = ""
           THEN [seq |-> 1 - httpReply.seq, token |-> token, status |-> 404,
                 body |-> NotFoundBody]
           ELSE IF ~CacheGet(token).found
                  THEN [seq |-> 1 - httpReply.seq, token |-> token, status |-> 404,
                        body |-> NotFoundBody]
                  ELSE [seq |-> 1 - httpReply.seq, token |-> token, status |-> 200,
                        body |-> CacheGet(token).response]
    /\ UNCHANGED <<challenges, now, schedPc, srvPc, sweepPc, hLastMsg, httpServer, pending, hArrived, hDropped>>
    /\ ChalFrame

\* variant of CleanExpired: the sweep drops every entry
CleanExpired_All ==
    /\ sweepPc = "ticking"
    /\ challenges' = [t \in Tokens |-> NoEntry]
    /\ UNCHANGED <<now, httpReply, schedPc, srvPc, sweepPc, hLastMsg, httpServer, pending, hArrived, hDropped>>
    /\ ChalFrame

\* ChallengeCache.CleanExpired, run by cleanupExpiredChallenges on its
\* ticker.  The loop is "for range ticker.C": the ticker is stopped only by
\* the deferred ticker.Stop and its channel is never closed, so the
\* goroutine has no step that leaves the loop.
CleanExpired ==
    /\ sweepPc = "ticking"
    /\ challenges' = [t \in Tokens |->
                        IF challenges[t].present /\ now > challenges[t].expiresAt
                          THEN NoEntry ELSE challenges[t]]
    /\ UNCHANGED <<now, httpReply, schedPc, srvPc, sweepPc, hLastMsg, httpServer, pending, hArrived, hDropped>>
    /\ ChalFrame

\* HTTPServer.Start in the goroutine scheduler.Start runs it in:
\* ListenAndServe binds the port (bound) and serves until Shutdown, then
\* returns http.ErrServerClosed; it returns at once when the port cannot be
\* bound (the error is logged by the goroutine) or Shutdown was called
\* before it
HTTPServerStart(bound) ==
    /\ srvPc = "init" \/ (srvPc = "listening" /\ schedPc = "returned")
    /\ srvPc' = IF srvPc = "init" /\ schedPc = "waiting" /\ bound THEN "listening"
                ELSE "returned"
    /\ UNCHANGED <<challenges, now, httpReply, schedPc, sweepPc, hLastMsg, httpServer, pending, hArrived, hDropped>>
    /\ ChalFrame

\* scheduler.Start after <-ctx.Done(): Scheduler.stop calls
\* httpServer.Stop, that is server.Shutdown with a 5 s deadline, and returns
SchedulerStop ==
    /\ cancelled
    /\ schedPc = "waiting"
    /\ schedPc' = "returned"
    /\ UNCHANGED <<challenges, now, httpReply, srvPc, sweepPc, hLastMsg, httpServer, pending, hArrived, hDropped>>
    /\ ChalFrame

\* time passes
ChalTick ==
    /\ now + TickStep <= MaxClock
    /\ now' = now + TickStep
    /\ UNCHANGED <<challenges, httpReply, schedPc, srvPc, sweepPc, hLastMsg, httpServer, pending, hArrived, hDropped>>
    /\ ChalFrame

ChalNext ==
    \/ \E token \in Tokens, challengeResp \in Responses : HandleChallenge(token, challengeResp)
    \/ \E token \in Tokens : HandleACMEChallenge(token)
    \/ \E bound \in BOOLEAN : HTTPServerStart(bound)
    \/ SetHTTPServer
    \/ CleanExpired
    \/ ChalTick

(***************************************************************************)
(* Challenge server: properties.                                           *)
(***************************************************************************)
\* a request is answered in this step
C6_RequestStep == httpReply'.seq # httpReply.seq

\* C6: a request for token t is answered 200 with body r exactly when t is
\* not empty and the cache holds, at the time of the request, an entry
\* (t -> r) whose expiry time has not passed; every other request, the one
\* with an empty token included, is answered 404.
C6_ServedOnlyIfLive ==
    [][C6_RequestStep =>
         LET t == httpReply'.token
             e == challenges[t]
         IN  IF t # "" /\ e.present /\ ~(now > e.expiresAt)
               THEN httpReply'.status = 200 /\ httpReply'.body = e.response
               ELSE httpReply'.status = 404 /\ httpReply'.body = NotFoundBody]_vars

\* C6 witness: an entry was served at the last minute of its life
C6_Witness ==
    /\ httpReply.status = 200
    /\ challenges[httpReply.token].present
    /\ challenges[httpReply.token].response = httpReply.body
    /\ now = challenges[httpReply.token].expiresAt

\* C25: for every token, while the last CHALLENGE message handled for it set
\* response r and its expiry time (the time of the Set plus the ttl) has not
\* passed, Get returns (r, true), whatever sweeps, Gets and operations on
\* other tokens came in between; when the last message removed it, or the
\* expiry time has passed, Get returns ("", false).
C25_GetAfterSetDelete ==
    \A t \in Tokens \ {""} :
        LET h == hLastMsg[t]
        IN  /\ (h.op = "set" /\ now <= h.at + ChallengeTTL) =>
                  CacheGet(t) = [response |-> h.response, found |-> TRUE]
            /\ (h.op = "evict" \/ (h.op = "set" /\ now > h.at + ChallengeTTL)) =>
                  CacheGet(t) = [response |-> "", found |-> FALSE]

\* C25 witness: tokA was set and is live after time has passed, while tokB
\* was set and has expired
C25_Witness ==
    /\ hLastMsg["tokA"].op = "set" /\ hLastMsg["tokA"].at > 0
    /\ now > hLastMsg["tokA"].at /\ now <= hLastMsg["tokA"].at + ChallengeTTL
    /\ CacheGet("tokA").found
    /\ hLastMsg["tokB"].op = "set" /\ now > hLastMsg["tokB"].at + ChallengeTTL
    /\ ~CacheGet("tokB").found

\* C26, for the messages that reach the server: a CHALLENGE message with a
\* token and an empty response removes the token's entry and one with a
\* response stores it: a request for a token is
\* answered 404 when the last message handled for that token was the
\* eviction, and 200 with the response when the last one carried a response
\* (handled within the last ChallengeTTL minutes).
C26_EvictionRouted ==
    [][C6_RequestStep =>
         LET t == httpReply'.token
             h == hLastMsg[t]
         IN  /\ (t # "" /\ h.op = "evict") =>
                   (httpReply'.status = 404 /\ httpReply'.body = NotFoundBody)
             /\ (t # "" /\ h.op = "set" /\ now <= h.at + ChallengeTTL) =>
                   (httpReply'.status = 200 /\ httpReply'.body = h.response)]_vars

\* C26 as stated: every CHALLENGE message with a token is routed to the
\* store, to Delete when its response is empty and to Set otherwise, and
\* after the eviction a GET for the token is answered 404.
C26_MessageRouted ==
    /\ C26_EvictionRouted
    /\ [][hDropped' = hDropped]_vars

\* C37: no CHALLENGE message with a non-empty token is dropped because the
\* HTTP challenge server has not been set on the client yet.
C37_NoChallengeDropped ==
    hDropped = "none"

\* C38: CHALLENGE messages for the same token take effect in arrival order:
\* when every handler has run (and none found the client without a server),
\* a token whose last message received was an eviction is absent from the
\* store and one whose last message carried a response is present.
C38_ArrivalOrder ==
    (pending = {} /\ hDropped = "none") =>
        \A t \in Tokens \ {""} :
            /\ hArrived[t] = "evict" => ~challenges[t].present
            /\ hArrived[t] = "set" => challenges[t].present

(***************************************************************************)
(* Deployment pipeline (deploys.CertDeployer).                             *)
(***************************************************************************)
Targets == {"nginx", "apache", "rustfs", "feiniu", "onepanel"}

\* the deployment a request asks for: the fan-out over every configured
\* target (WSClient.handleExecuteBusines with no provider) or one of the
\* single-target deployments of provider "ansslCli"
Entry == IF req.provider = "" THEN "all" ELSE req.type

\* the targets the requested deployment is to install
Requested == IF Entry = "all" THEN enabled ELSE {Entry}

\* folderName: the directory under the target root that the nginx and apache
\* installers write, "s" standing for safeDomain
FolderName ==
    IF Entry = "apache" THEN "s_certificates" ELSE "s"

\* certPath and keyPath of the generated {safeDomain}.ssl.conf, as file names
\* inside the installed directory
ConfRefs(t) ==
    IF t = "nginx" THEN {"cert.pem", "privateKey.key"}
                   ELSE {"fullchain.pem", "privkey.pem"}

DepInit ==
    /\ enabled \in SUBSET Targets
    /\ prev \in {"absent", "old"}
    /\ tgt = [t \in Targets |-> prev]
    /\ zipFile = FALSE
    /\ extractDir = "none"
    /\ depPc = "recv"
    /\ depResult = "none"
    /\ depFailedAt = ""
    /\ req \in [transport : {"bidi", "ws"}, domain : {"", "a.com"},
                 provider : {"", "ansslCli", "bogus"},
                 type : {"nginx", "apache", "other"}]
    \* the deployer modelled here is the one of package deploys, which the
    \* WebSocket client calls; of the bidi client's requests the model takes
    \* those that executeBusines answers without a deployer
    /\ req.transport = "bidi" =>
           (req.domain = "" \/ req.provider # "ansslCli" \/ req.type = "other")
    /\ bundle \in {{"cert.pem", "privateKey.key"} \cup extra :
                      extra \in SUBSET {"fullchain.pem", "privkey.pem"}}
    /\ reload = [t \in {"nginx", "apache"} |-> "none"]
    /\ depReply = "none"

\* what a client does with the request before any deployer runs: "deploy",
\* or the result code it answers at once.  Both clients answer FAILED for an
\* empty domain.  Client.executeBusines (bidi) answers NOT_SUPPORTED from the
\* default cases of its two switches; WSClient.handleExecuteBusines runs the
\* fan-out for an empty provider and answers FAILED for the error that
\* ExecuteBusiness returns from its default cases
Dispatch(client) ==
    IF req.domain = "" THEN "FAILED"
    ELSE IF req.provider = "ansslCli" /\ req.type \in {"nginx", "apache"} THEN "deploy"
    ELSE IF client = "bidi" THEN "NOT_SUPPORTED"
    ELSE IF req.provider = "" THEN "deploy"
    ELSE "FAILED"

\* variant of handleExecuteBusines: no check of the domain before the
\* provider is looked at
handleExecuteBusines_NoDomainCheck ==
    /\ depPc = "recv"
    /\ LET known == req.provider = "ansslCli" /\ req.type \in {"nginx", "apache"}
           accepted == \/ known
                       \/ req.transport = "ws" /\ req.provider = ""
       IN  IF accepted
             THEN /\ depPc' = "idle"
                  /\ UNCHANGED depReply
             ELSE /\ depPc' = "rejected"
                  /\ depReply' = IF req.transport = "bidi"
                                   THEN "NOT_SUPPORTED" ELSE "FAILED"
    /\ UNCHANGED <<enabled, prev, req, bundle, reload, tgt, zipFile, extractDir,
                   depResult, depFailedAt>>
    /\ DepFrame

\* executeBusines / handleExecuteBusines up to the call of the deployer: an
\* empty domain is answered FAILED at once; the bidi client answers
\* NOT_SUPPORTED for a provider or a type outside its switch, the WebSocket
\* client gets an error from ExecuteBusiness and answers FAILED
handleExecuteBusines ==
    /\ depPc = "recv"
    /\ IF Dispatch(req.transport) = "deploy"
         THEN /\ depPc' = "idle"
              /\ UNCHANGED depReply
         ELSE /\ depPc' = "rejected"
              /\ depReply' = Dispatch(req.transport)
    /\ UNCHANGED <<enabled, prev, req, bundle, reload, tgt, zipFile, extractDir,
                   depResult, depFailedAt>>
    /\ DepFrame

\* variant of sendExecuteBusinesResponse: the result is SUCCESS whatever the
\* deployer returned
sendExecuteBusinesResponse_AlwaysSuccess ==
    /\ depPc = "done"
    /\ depReply = "none"
    /\ depReply' = "SUCCESS"
    /\ UNCHANGED <<enabled, prev, req, bundle, reload, tgt, zipFile, extractDir,
                   depPc, depResult, depFailedAt>>
    /\ DepFrame

\* the end of the handler: result = FAILED if the deployer returned an error,
\* SUCCESS otherwise, and sendExecuteBusinesResponse(requestId, result)
sendExecuteBusinesResponse ==
    /\ depPc = "done"
    /\ depReply = "none"
    /\ depReply' = IF depResult = "err" THEN "FAILED" ELSE "SUCCESS"
    /\ UNCHANGED <<enabled, prev, req, bundle, reload, tgt, zipFile, extractDir,
                   depPc, depResult, depFailedAt>>
    /\ DepFrame

\* variant of DepReturn: the extracted directory is cleaned up only by the
\* error branch of the extraction, there is no deferred os.RemoveAll
DepReturn_KeepsScratch(res, at) ==
    /\ depPc' = "done"
    /\ depResult' = res
    /\ depFailedAt' = at
    /\ zipFile' = FALSE
    /\ extractDir' = IF at = "extract" THEN "none" ELSE extractDir

\* a return of DeployCertificate after the deferred calls were registered:
\* os.Remove(zipFile) and os.RemoveAll(extractDir) run
DepReturn(res, at) ==
    /\ depPc' = "done"
    /\ depResult' = res
    /\ depFailedAt' = at
    /\ zipFile' = FALSE
    /\ extractDir' = "none"

\* os.MkdirAll(CertsDir) and cd.downloadFunc(url, zipFile): a failed download
\* leaves no zip file (downloadFile renames a temporary file at the end); a
\* single-target deployment first returns an error if its path is not
\* configured
DeployDownload ==
    /\ depPc = "idle"
    /\ IF Entry # "all" /\ Entry \notin enabled
         THEN /\ depPc' = "done"
              /\ depResult' = "err"
              /\ depFailedAt' = "config"
              /\ UNCHANGED zipFile
         ELSE \E ok \in BOOLEAN :
                IF ok
                  THEN /\ zipFile' = TRUE
                       /\ depPc' = "config"
                       /\ UNCHANGED <<depResult, depFailedAt>>
                  ELSE /\ depPc' = "done"
                       /\ depResult' = "err"
                       /\ depFailedAt' = "download"
                       /\ UNCHANGED zipFile
    /\ UNCHANGED <<enabled, prev, req, bundle, reload, depReply, tgt, extractDir>>
    /\ DepFrame

\* DeployCertificate with no target configured: return nil
DeployCheckConfig ==
    /\ depPc = "config"
    /\ IF Entry = "all" /\ enabled = {}
         THEN DepReturn("ok", "")
         ELSE /\ depPc' = "extract"
              /\ UNCHANGED <<zipFile, extractDir, depResult, depFailedAt>>
    /\ UNCHANGED <<enabled, prev, req, bundle, reload, depReply, tgt>>
    /\ DepFrame

\* ExtractZip(zipFile, extractDir); on an error os.RemoveAll(extractDir)
ExtractZip ==
    /\ depPc = "extract"
    /\ \E ok \in BOOLEAN :
         IF ok
           THEN /\ extractDir' = "full"
                /\ depPc' = "nginx"
                /\ UNCHANGED <<zipFile, depResult, depFailedAt>>
           ELSE DepReturn("err", "extract")
    /\ UNCHANGED <<enabled, prev, req, bundle, reload, depReply, tgt>>
    /\ DepFrame

\* if <target enabled> { ... }: enter the installer or go on to the next
DepEnter(t, first, next) ==
    /\ depPc = t
    /\ depPc' = IF t \in enabled \cap Requested THEN first ELSE next
    /\ UNCHANGED <<enabled, prev, req, bundle, reload, depReply, tgt, zipFile, extractDir, depResult, depFailedAt>>
    /\ DepFrame

\* os.Stat(targetDir) == nil => os.RemoveAll(targetDir); a failed RemoveAll
\* may have removed part of the directory
DepRemoveOld(t, at, next) ==
    /\ depPc = at
    /\ IF tgt[t] = "absent"
         THEN /\ depPc' = next
              /\ UNCHANGED <<tgt, zipFile, extractDir, depResult, depFailedAt>>
         ELSE \E ok \in BOOLEAN :
                IF ok
                  THEN /\ tgt' = [tgt EXCEPT ![t] = "absent"]
                       /\ depPc' = next
                       /\ UNCHANGED <<zipFile, extractDir, depResult, depFailedAt>>
                  ELSE /\ \E left \in {tgt[t], "partial"} : tgt' = [tgt EXCEPT ![t] = left]
                       /\ DepReturn("err", t)
    /\ UNCHANGED <<enabled, prev, req, bundle, reload, depReply>>
    /\ DepFrame

\* CopyDirectory(sourceDir, targetDir): a missing source is an error at once;
\* a copy that fails midway leaves what it had copied
DepCopyDirectory(t, at, next) ==
    /\ depPc = at
    /\ IF extractDir # "full"
         THEN /\ DepReturn("err", t)
              /\ UNCHANGED tgt
         ELSE \E ok \in BOOLEAN :
                IF ok
                  THEN /\ tgt' = [tgt EXCEPT ![t] = "new"]
                       /\ depPc' = next
                       /\ UNCHANGED <<zipFile, extractDir, depResult, depFailedAt>>
                  ELSE /\ tgt' = [tgt EXCEPT ![t] = "partial"]
                       /\ DepReturn("err", t)
    /\ UNCHANGED <<enabled, prev, req, bundle, reload, depReply>>
    /\ DepFrame

\* a step that touches no directory (writing the server's SSL configuration
\* file): it succeeds or returns its error
DepConfigStep(t, at, next) ==
    /\ depPc = at
    /\ \E ok \in BOOLEAN :
         IF ok
           THEN /\ depPc' = next
                /\ UNCHANGED <<zipFile, extractDir, depResult, depFailedAt>>
           ELSE DepReturn("err", t)
    /\ UNCHANGED <<enabled, prev, req, bundle, reload, depReply, tgt>>
    /\ DepFrame

(***************************************************************************)
(* The installers, in the order DeployCertificate calls them.              *)
(***************************************************************************)
\* if nginxPath != "" { DeployToNginx }
DeployToNginx == DepEnter("nginx", "nginx_rm", "apache")

\* moveCertificates: remove an existing target directory
moveCertificates_RemoveOld == DepRemoveOld("nginx", "nginx_rm", "nginx_mv")

\* moveCertificates: os.Rename(sourceDir, targetDir); EXDEV falls back to a copy
moveCertificates_Rename ==
    /\ depPc = "nginx_mv"
    /\ \E outcome \in {"ok", "exdev", "err"} :
         CASE outcome = "ok" ->
                /\ extractDir = "full"
                /\ tgt' = [tgt EXCEPT !["nginx"] = "new"]
                /\ extractDir' = "none"
                /\ depPc' = "nginx_cfg"
                /\ UNCHANGED <<zipFile, depResult, depFailedAt>>
           [] outcome = "exdev" ->
                /\ extractDir = "full"
                /\ depPc' = "nginx_copy"
                /\ UNCHANGED <<tgt, zipFile, extractDir, depResult, depFailedAt>>
           [] outcome = "err" ->
                /\ DepReturn("err", "nginx")
                /\ UNCHANGED tgt
    /\ UNCHANGED <<enabled, prev, req, bundle, reload, depReply>>
    /\ DepFrame

\* moveCertificates: CopyDirectory(sourceDir, targetDir) after EXDEV
moveCertificates_Copy == DepCopyDirectory("nginx", "nginx_copy", "nginx_rmsrc")

\* moveCertificates: os.RemoveAll(sourceDir) after the copy
moveCertificates_RemoveSource ==
    /\ depPc = "nginx_rmsrc"
    /\ \E ok \in BOOLEAN :
         IF ok
           THEN /\ extractDir' = "none"
                /\ depPc' = "nginx_cfg"
                /\ UNCHANGED <<zipFile, depResult, depFailedAt>>
           ELSE DepReturn("err", "nginx")
    /\ UNCHANGED <<enabled, prev, req, bundle, reload, depReply, tgt>>
    /\ DepFrame

GenerateNginxSSLConfig == DepConfigStep("nginx", "nginx_cfg", "apache")

\* if apachePath != "" { DeployToApache }
DeployToApache == DepEnter("apache", "apache_rm", "rustfs")

DeployToApache_RemoveOld == DepRemoveOld("apache", "apache_rm", "apache_copy")

DeployToApache_Copy == DepCopyDirectory("apache", "apache_copy", "apache_cfg")

GenerateApacheSSLConfig == DepConfigStep("apache", "apache_cfg", "rustfs")

\* if rustFSPath != "" { DeployToRustFS }
DeployToRustFS == DepEnter("rustfs", "rustfs_rm", "feiniu")

DeployToRustFS_RemoveOld == DepRemoveOld("rustfs", "rustfs_rm", "rustfs_mk")

\* os.MkdirAll(targetDir)
DepMkdir(t, at, next) ==
    /\ depPc = at
    /\ \E ok \in BOOLEAN :
         IF ok
           THEN /\ tgt' = [tgt EXCEPT ![t] = "empty"]
                /\ depPc' = next
                /\ UNCHANGED <<zipFile, extractDir, depResult, depFailedAt>>
           ELSE /\ DepReturn("err", t)
                /\ UNCHANGED tgt
    /\ UNCHANGED <<enabled, prev, req, bundle, reload, depReply>>
    /\ DepFrame

DeployToRustFS_Mkdir == DepMkdir("rustfs", "rustfs_mk", "rustfs_cert")

\* CopyFileWithMode(src, dst): os.Open(src) fails when the source is gone;
\* content is what the target directory holds when the copy succeeds
DepCopyFile(t, at, next, content) ==
    /\ depPc = at
    /\ IF extractDir # "full"
         THEN /\ DepReturn("err", t)
              /\ UNCHANGED tgt
         ELSE \E ok \in BOOLEAN :
                IF ok
                  THEN /\ tgt' = [tgt EXCEPT ![t] = content]
                       /\ depPc' = next
                       /\ UNCHANGED <<zipFile, extractDir, depResult, depFailedAt>>
                  ELSE /\ tgt' = [tgt EXCEPT ![t] = "partial"]
                       /\ DepReturn("err", t)
    /\ UNCHANGED <<enabled, prev, req, bundle, reload, depReply>>
    /\ DepFrame

\* cert.pem -> rustfs_cert.pem
DeployToRustFS_Cert == DepCopyFile("rustfs", "rustfs_cert", "rustfs_key", "partial")

\* privateKey.key -> rustfs_key.pem
DeployToRustFS_Key == DepCopyFile("rustfs", "rustfs_key", "feiniu", "new")

\* if feiNiuEnabled { DeployToFeiNiu }
DeployToFeiNiu == DepEnter("feiniu", "feiniu_rm", "onepanel")

DeployToFeiNiu_RemoveOld == DepRemoveOld("feiniu", "feiniu_rm", "feiniu_mk")

DeployToFeiNiu_Mkdir == DepMkdir("feiniu", "feiniu_mk", "feiniu_files")

\* the loop over certFiles: a source file that does not exist is skipped with
\* a warning; what follows the loop only warns
DeployToFeiNiu_Files ==
    /\ depPc = "feiniu_files"
    /\ IF extractDir # "full"
         THEN /\ depPc' = "onepanel"
              /\ UNCHANGED <<tgt, zipFile, extractDir, depResult, depFailedAt>>
         ELSE \E ok \in BOOLEAN :
                IF ok
                  THEN /\ tgt' = [tgt EXCEPT !["feiniu"] = "new"]
                       /\ depPc' = "onepanel"
                       /\ UNCHANGED <<zipFile, extractDir, depResult, depFailedAt>>
                  ELSE /\ tgt' = [tgt EXCEPT !["feiniu"] = "partial"]
                       /\ DepReturn("err", "feiniu")
    /\ UNCHANGED <<enabled, prev, req, bundle, reload, depReply>>
    /\ DepFrame

\* if onePanelEnabled { DeployTo1Panel }
DeployTo1Panel == DepEnter("onepanel", "onepanel_up", "reload")

\* os.ReadFile(cert.pem), os.ReadFile(privateKey.key), then the upload
DeployTo1Panel_Upload == DepCopyFile("onepanel", "onepanel_up", "reload", "new")

\* variant of DeployReloadReturn: a failed config test or reload is returned
\* as the deployment's error
DeployReloadReturn_ReturnsErr ==
    /\ depPc = "reload"
    /\ \E r \in [{"nginx", "apache"} ->
                    {"none", "unavailable", "test_failed", "reload_failed", "ok"}] :
         /\ \A t \in {"nginx", "apache"} :
              r[t] = "none" <=> t \notin enabled \cap Requested
         /\ reload' = r
         /\ IF \E t \in {"nginx", "apache"} : r[t] \in {"test_failed", "reload_failed"}
              THEN DepReturn("err", "reload")
              ELSE DepReturn("ok", "")
    /\ UNCHANGED <<enabled, prev, req, bundle, depReply, tgt>>
    /\ DepFrame

\* for nginx and for apache, if installed to: the server is not in PATH, or
\* its config test fails, or the test passes and the reload fails or
\* succeeds; every failure is logged with logger.Warn; return nil
DeployReloadReturn ==
    /\ depPc = "reload"
    /\ \E r \in [{"nginx", "apache"} ->
                    {"none", "unavailable", "test_failed", "reload_failed", "ok"}] :
         /\ \A t \in {"nginx", "apache"} :
              r[t] = "none" <=> t \notin enabled \cap Requested
         /\ reload' = r
    /\ DepReturn("ok", "")
    /\ UNCHANGED <<enabled, prev, req, bundle, depReply, tgt>>
    /\ DepFrame

DepNext ==
    \/ handleExecuteBusines
    \/ sendExecuteBusinesResponse
    \/ DeployDownload
    \/ DeployCheckConfig
    \/ ExtractZip
    \/ DeployToNginx
    \/ moveCertificates_RemoveOld
    \/ moveCertificates_Rename
    \/ moveCertificates_Copy
    \/ moveCertificates_RemoveSource
    \/ GenerateNginxSSLConfig
    \/ DeployToApache
    \/ DeployToApache_RemoveOld
    \/ DeployToApache_Copy
    \/ GenerateApacheSSLConfig
    \/ DeployToRustFS
    \/ DeployToRustFS_RemoveOld
    \/ DeployToRustFS_Mkdir
    \/ DeployToRustFS_Cert
    \/ DeployToRustFS_Key
    \/ DeployToFeiNiu
    \/ DeployToFeiNiu_RemoveOld
    \/ DeployToFeiNiu_Mkdir
    \/ DeployToFeiNiu_Files
    \/ DeployTo1Panel
    \/ DeployTo1Panel_Upload
    \/ DeployReloadReturn

(***************************************************************************)
(* Deployment pipeline: properties.                                        *)
(***************************************************************************)
\* C3: at every moment during and after a deployment, each enabled file
\* target (nginx, apache, rustfs) holds either its complete previous
\* contents or the complete new artifact.
C3_TargetOldOrNew ==
    \A t \in enabled \cap {"nginx", "apache", "rustfs"} : tgt[t] \in {prev, "new"}

\* C5: when a deployment returns successfully, every enabled target holds
\* the new artifact.
C5_AllEnabledInstalled ==
    depResult = "ok" => \A t \in enabled \cap Requested : tgt[t] = "new"

C21_AbortOnInstallerError ==
    LET order == <<"nginx", "apache", "rustfs", "feiniu", "onepanel">>
    IN  (Entry = "all" /\ depFailedAt \in Targets) =>
          /\ depPc = "done"
          /\ depResult = "err"
          /\ \A i, j \in 1..5 :
               (i < j /\ order[i] = depFailedAt) => tgt[order[j]] = prev
          /\ depReply \in {"none", "FAILED"}

\* C21 witness: the apache installer failed in a fan-out that also had rustfs
\* configured; rustfs still holds its previous directory and FAILED was sent
C21_Witness ==
    /\ Entry = "all" /\ depFailedAt = "apache"
    /\ {"apache", "rustfs"} \subseteq enabled
    /\ prev = "old" /\ tgt["rustfs"] = "old"
    /\ depResult = "err" /\ depReply = "FAILED"

\* C22: after a successful deployment the nginx and apache directories that
\* were deployed to are {T}/{safeDomain}, and they hold cert.pem and
\* privateKey.key as they are in the bundle.
C22_InstalledUnderSafeDomain ==
    depResult = "ok" =>
        \A t \in {"nginx", "apache"} \cap enabled \cap Requested :
            /\ tgt[t] = "new"
            /\ {"cert.pem", "privateKey.key"} \subseteq bundle
            /\ FolderName = "s"

\* C23: after a successful deployment the certificate and key files that the
\* generated {safeDomain}.ssl.conf of nginx and of apache names are files of
\* the installed directory, that is files of the bundle.
C23_ConfRefsInstalled ==
    depResult = "ok" =>
        \A t \in {"nginx", "apache"} \cap enabled \cap Requested :
            tgt[t] = "new" /\ ConfRefs(t) \subseteq bundle

\* C24: if the config test or the reload of nginx or apache failed, the files
\* of that server were installed, the deployment returned nil, and the reply
\* to the request, once sent, is SUCCESS.
C24_ReloadFailureIsSuccess ==
    \A t \in {"nginx", "apache"} :
        reload[t] \in {"test_failed", "reload_failed"} =>
            /\ tgt[t] = "new"
            /\ depPc = "done"
            /\ depResult = "ok"
            /\ depReply \in {"none", "SUCCESS"}

\* C24 witness: the fan-out installed to nginx, nginx's config test failed,
\* and SUCCESS was sent
C24_Witness ==
    /\ Entry = "all"
    /\ reload["nginx"] = "test_failed"
    /\ tgt["nginx"] = "new"
    /\ depResult = "ok" /\ depReply = "SUCCESS"

C40_SameResult ==
    depReply # "none" =>
        \A client \in {"bidi", "ws"} : Dispatch(client) \in {"deploy", depReply}

(***************************************************************************)
(* Control channel: the reconnect loop (Client.StartConnectNotify with     *)
(* handleNotifyStream; WSClient.StartWSNotify with connect and             *)
(* handleWSMessages).                                                      *)
(***************************************************************************)
Streams == 1..MaxStreams
FrameIds == 1..MaxFrames

\* the inbound frame types that are answered with the frame's requestId
FrameTypes == {"CONNECT", "EXECUTE_BUSINES", "GET_PROVIDER"}

NoFrame == [type |-> "", stream |-> 0, pc |-> "none", replies |-> 0, to |-> 0]

\* no heartbeat goroutine was started for the stream
NoHeartbeat == [pc |-> "none", to |-> 0]

ChanInit ==
    /\ transport \in {"bidi", "ws"}
    /\ chanPc = "top"
    /\ cancelled = FALSE
    /\ streamN = 0
    /\ streamSt = [i \in Streams |-> "none"]
    /\ cur = 0
    /\ connFailures = 0
    /\ reconnectDelay = MinReconnectDelay
    /\ frameN = 0
    /\ frames = [f \in FrameIds |-> NoFrame]
    /\ busyOperations = 0
    /\ hb = [s \in Streams |-> NoHeartbeat]
    /\ hTemporary = TRUE

\* variant of Backoff: after the fast attempts the delay grows by one second
Backoff_NoDoubling(n, delay) ==
    IF n <= FastReconnectAttempt
      THEN MinReconnectDelay
      ELSE Min(delay + 1, MaxReconnectDelay)

\* variant of Backoff: the doubling has no upper limit
Backoff_NoCap(n, delay) ==
    IF n <= FastReconnectAttempt
      THEN MinReconnectDelay
      ELSE delay * 2

\* the delay after the n-th consecutive failure
Backoff(n, delay) ==
    IF n <= FastReconnectAttempt
      THEN MinReconnectDelay
      ELSE Min(delay * 2, MaxReconnectDelay)

\* the goroutines that are inside stream.Send / conn.Write on stream s
Writers(s) ==
    [handlers |-> {f \in FrameIds : frames[f].pc = "sending" /\ frames[f].to = s},
     heartbeats |-> {h \in Streams : hb[h].pc = "sending" /\ hb[h].to = s}]

\* conn.Write of the WebSocket connection takes the connection's write lock
\* (github.com/coder/websocket serialises writers); the bidi stream's Send
\* has no lock
WriteLockFree(s) ==
    (transport = "ws" /\ s # 0)
        => (Writers(s).handlers = {} /\ Writers(s).heartbeats = {})

\* select { case <-c.ctx.Done(): return }
LoopStop ==
    /\ chanPc = "top" /\ cancelled
    /\ chanPc' = "stopped"
    /\ UNCHANGED <<transport, cancelled, streamN, streamSt, cur, connFailures,
                   reconnectDelay, frameN, frames, busyOperations, hb,
                   hTemporary>>
    /\ ChanFrame

\* connectClient.Notify / websocket.Dial fails: count, back off, sleep
\* (temporary: isTemporaryError(err), WebSocket only)
ConnectFail ==
    /\ chanPc = "top" /\ ~cancelled
    /\ connFailures < (IF frameN = 0 THEN MaxDialFails ELSE MaxBusyDialFails)
    /\ connFailures' = connFailures + 1
    /\ \E temporary \in BOOLEAN :
         /\ transport = "bidi" => temporary
         /\ hTemporary' = temporary
         /\ reconnectDelay' = IF transport = "bidi" \/ temporary
                                THEN Backoff(connFailures + 1, reconnectDelay)
                                ELSE MinReconnectDelay * 2
    /\ chanPc' = "sleep"
    /\ UNCHANGED <<transport, cancelled, streamN, streamSt, cur, frameN, frames,
                   busyOperations, hb>>
    /\ ChanFrame

\* connectClient.Notify / websocket.Dial succeeds: a new stream exists
\* (WebSocket: c.conn = conn)
ConnectOk ==
    /\ chanPc = "top" /\ ~cancelled
    /\ streamN < MaxStreams
    /\ streamN' = streamN + 1
    /\ streamSt' = [streamSt EXCEPT ![streamN + 1] = "open"]
    /\ cur' = streamN + 1
    /\ chanPc' = "register"
    /\ UNCHANGED <<transport, cancelled, connFailures, reconnectDelay, frameN,
                   frames, busyOperations, hb, hTemporary>>
    /\ ChanFrame

\* variant of Register: the counters are left as they are after a
\* registration
Register_NoReset ==
    /\ chanPc = "register"
    /\ WriteLockFree(cur)
    /\ IF streamSt[cur] = "open" \/ transport = "ws"
         THEN /\ chanPc' = "serving"
              /\ hb' = [hb EXCEPT ![cur] = [pc |-> "waiting", to |-> 0]]
              /\ UNCHANGED <<streamSt, connFailures, reconnectDelay>>
         ELSE /\ connFailures' = connFailures + 1
              /\ reconnectDelay' = Backoff(connFailures + 1, reconnectDelay)
              /\ streamSt' = [streamSt EXCEPT ![cur] = "closed"]
              /\ chanPc' = "sleep"
              /\ UNCHANGED hb
    /\ hTemporary' = TRUE
    /\ UNCHANGED <<transport, cancelled, streamN, cur, frameN, frames,
                   busyOperations>>
    /\ ChanFrame

\* the REGISTER frame. bidi: a failed stream.Send counts as a failure and the
\* stream is closed (CloseRequest); WebSocket: a failed sendRegister only
\* warns and connect returns nil. (system.GetSystemInfo never returns an
\* error, so the branch on getSystemInfo's error is never taken.)  After a
\* registration the counters are reset and handleNotifyStream /
\* handleWSMessages starts the stream's heartbeat goroutine.
Register ==
    /\ chanPc = "register"
    /\ WriteLockFree(cur)
    /\ IF streamSt[cur] = "open" \/ transport = "ws"
         THEN /\ connFailures' = 0
              /\ reconnectDelay' = MinReconnectDelay
              /\ chanPc' = "serving"
              /\ hb' = [hb EXCEPT ![cur] = [pc |-> "waiting", to |-> 0]]
              /\ UNCHANGED streamSt
         ELSE /\ connFailures' = connFailures + 1
              /\ reconnectDelay' = Backoff(connFailures + 1, reconnectDelay)
              /\ streamSt' = [streamSt EXCEPT ![cur] = "closed"]
              /\ chanPc' = "sleep"
              /\ UNCHANGED hb
    /\ hTemporary' = TRUE
    /\ UNCHANGED <<transport, cancelled, streamN, cur, frameN, frames,
                   busyOperations>>
    /\ ChanFrame

\* stream.Receive / conn.Read returns a frame; handleMessage starts a
\* goroutine for it
Receive(type) ==
    /\ chanPc = "serving" /\ ~cancelled
    /\ cur # 0 /\ streamSt[cur] = "open"
    /\ frameN < MaxFrames
    /\ frameN' = frameN + 1
    /\ frames' = [frames EXCEPT ![frameN + 1] =
                     [type |-> type, stream |-> cur, pc |-> "spawned", replies |-> 0,
                      to |-> 0]]
    /\ UNCHANGED <<transport, chanPc, cancelled, streamN, streamSt, cur, connFailures,
                   reconnectDelay, busyOperations, hb, hTemporary>>
    /\ ChanFrame

\* a frame that no handler is started for. "undecodable": the bytes are not
\* a NotifyResponse; handleWSMessages logs a warning for the Unmarshal error
\* and continues, while on the bidi stream the decoding is part of
\* stream.Receive, whose error ends handleNotifyStream. "nopayload": the
\* frame decodes and has a type that needs a payload (CONNECT, CHALLENGE,
\* EXECUTE_BUSINES), but Data is not of the payload's type: the type
\* assertion of handleMessage fails and nothing else is done. The frame is
\* recorded with pc "warned" (dropped with logger.Warn), "dropped" (dropped
\* with no log entry) or "failed" (the read failed).
ReceiveDropped(kind) ==
    /\ chanPc = "serving" /\ ~cancelled
    /\ cur # 0 /\ streamSt[cur] = "open"
    /\ frameN < MaxFrames
    /\ frameN' = frameN + 1
    /\ frames' = [frames EXCEPT ![frameN + 1] =
                     [type |-> kind, stream |-> cur,
                      pc |-> IF kind = "nopayload" THEN "dropped"
                             ELSE IF transport = "ws" THEN "warned" ELSE "failed",
                      replies |-> 0, to |-> 0]]
    /\ chanPc' = IF kind = "undecodable" /\ transport = "bidi" THEN "closing"
                 ELSE chanPc
    /\ UNCHANGED <<transport, cancelled, streamN, streamSt, cur, connFailures,
                   reconnectDelay, busyOperations, hb, hTemporary>>
    /\ ChanFrame

\* the receive loop ends: the context is done, the read returned an error
\* (the stream failed or was closed), or (WebSocket) c.conn is nil
ReceiveError ==
    /\ chanPc = "serving"
    /\ ~(~cancelled /\ cur # 0 /\ streamSt[cur] \in {"open", "stalled"})
    /\ chanPc' = "closing"
    /\ UNCHANGED <<transport, cancelled, streamN, streamSt, cur, connFailures,
                   reconnectDelay, frameN, frames, busyOperations, hb,
                   hTemporary>>
    /\ ChanFrame

\* variant of CloseStream: the old stream is left as it is
CloseStream_LeavesOpen ==
    /\ chanPc = "closing"
    /\ cur' = IF transport = "ws" THEN 0 ELSE cur
    /\ chanPc' = "sleep"
    /\ UNCHANGED <<transport, cancelled, streamN, streamSt, connFailures, reconnectDelay,
                   frameN, frames, busyOperations, hb, hTemporary>>
    /\ ChanFrame

\* bidi: stream.CloseRequest() after handleNotifyStream returned;
\* WebSocket: the deferred c.conn.Close, c.conn = nil of handleWSMessages
CloseStream ==
    /\ chanPc = "closing"
    /\ streamSt' = IF cur # 0 THEN [streamSt EXCEPT ![cur] = "closed"] ELSE streamSt
    /\ cur' = IF transport = "ws" THEN 0 ELSE cur
    /\ chanPc' = "sleep"
    /\ UNCHANGED <<transport, cancelled, streamN, connFailures, reconnectDelay, frameN,
                   frames, busyOperations, hb, hTemporary>>
    /\ ChanFrame

\* variant of ReconnectWake: the loop ends after the sleep
ReconnectWake_Returns ==
    /\ chanPc = "sleep"
    /\ chanPc' = "stopped"
    /\ UNCHANGED <<transport, cancelled, streamN, streamSt, cur, connFailures,
                   reconnectDelay, frameN, frames, busyOperations, hb,
                   hTemporary>>
    /\ ChanFrame

\* time.Sleep(reconnectDelay) returns
ReconnectWake ==
    /\ chanPc = "sleep"
    /\ chanPc' = "top"
    /\ UNCHANGED <<transport, cancelled, streamN, streamSt, cur, connFailures,
                   reconnectDelay, frameN, frames, busyOperations, hb,
                   hTemporary>>
    /\ ChanFrame

\* the network or the server ends a stream: reads and writes on it fail
StreamBreak ==
    /\ \E s \in Streams :
         /\ streamSt[s] \in {"open", "stalled"}
         /\ streamSt' = [streamSt EXCEPT ![s] = "broken"]
    /\ UNCHANGED <<transport, chanPc, cancelled, streamN, cur, connFailures,
                   reconnectDelay, frameN, frames, busyOperations, hb,
                   hTemporary>>
    /\ ChanFrame

\* a stream goes silent: no frame arrives on it any more and writes to it
\* fail, while the blocking stream.Receive / conn.Read does not return
StreamStall ==
    /\ \E s \in Streams :
         /\ streamSt[s] = "open"
         /\ streamSt' = [streamSt EXCEPT ![s] = "stalled"]
    /\ UNCHANGED <<transport, chanPc, cancelled, streamN, cur, connFailures,
                   reconnectDelay, frameN, frames, busyOperations, hb,
                   hTemporary>>
    /\ ChanFrame

\* the scheduler cancels c.ctx
Cancel ==
    /\ ~cancelled
    /\ cancelled' = TRUE
    /\ UNCHANGED <<transport, chanPc, streamN, streamSt, cur, connFailures,
                   reconnectDelay, frameN, frames, busyOperations, hb,
                   hTemporary>>
    /\ ChanFrame

(***************************************************************************)
(* Control channel: the heartbeat goroutine of a stream (sendHeartbeat).   *)
(***************************************************************************)
\* heartbeatCtx of the stream's goroutine is done: c.ctx was cancelled, or
\* handleNotifyStream / handleWSMessages returned (deferred cancelHeartbeat)
HbCtxDone(s) == cancelled \/ ~(chanPc = "serving" /\ cur = s)

\* case <-ticker.C: the goroutine calls stream.Send (bidi, on its own
\* stream) or sendNotifyRequest (WebSocket, on the current c.conn).  A tick
\* that select takes although the context is done as well is left out: it
\* writes to the stream that was closed (bidi) or finds c.conn nil during
\* the loop's sleep (WebSocket).
HeartbeatTick(s) ==
    /\ hb[s].pc = "waiting"
    /\ ~HbCtxDone(s)
    /\ LET to == IF transport = "bidi" THEN s ELSE cur
       IN  /\ WriteLockFree(to)
           /\ hb' = [hb EXCEPT ![s] = [pc |-> "sending", to |-> to]]
    /\ UNCHANGED <<transport, chanPc, cancelled, streamN, streamSt, cur, connFailures,
                   reconnectDelay, frameN, frames, busyOperations,
                   hTemporary>>
    /\ ChanFrame

\* the send returned nil: wait for the next tick
HeartbeatOk(s) ==
    /\ hb[s].pc = "sending"
    /\ hb[s].to # 0 /\ streamSt[hb[s].to] = "open"
    /\ hb' = [hb EXCEPT ![s] = [pc |-> "waiting", to |-> 0]]
    /\ UNCHANGED <<transport, chanPc, cancelled, streamN, streamSt, cur, connFailures,
                   reconnectDelay, frameN, frames, busyOperations, hTemporary>>
    /\ ChanFrame

\* Client.sendHeartbeat: a failed stream.Send is logged and the goroutine
\* returns
HeartbeatFailReturn(s) ==
    /\ transport = "bidi"
    /\ hb[s].pc = "sending"
    /\ streamSt[hb[s].to] # "open"
    /\ hb' = [hb EXCEPT ![s] = [pc |-> "returned", to |-> 0]]
    /\ UNCHANGED <<transport, chanPc, cancelled, streamN, streamSt, cur, connFailures,
                   reconnectDelay, frameN, frames, busyOperations,
                   hTemporary>>
    /\ ChanFrame

\* WSClient.sendHeartbeat: after a failed sendNotifyRequest the goroutine
\* closes c.conn (when it is not nil) and returns
HeartbeatFailClose(s) ==
    /\ transport = "ws"
    /\ hb[s].pc = "sending"
    /\ ~(hb[s].to # 0 /\ streamSt[hb[s].to] = "open")
    /\ streamSt' = IF cur # 0 THEN [streamSt EXCEPT ![cur] = "closed"] ELSE streamSt
    /\ hb' = [hb EXCEPT ![s] = [pc |-> "returned", to |-> 0]]
    /\ UNCHANGED <<transport, chanPc, cancelled, streamN, cur, connFailures,
                   reconnectDelay, frameN, frames, busyOperations,
                   hTemporary>>
    /\ ChanFrame

\* case <-ctx.Done(): return
HeartbeatStop(s) ==
    /\ hb[s].pc = "waiting"
    /\ HbCtxDone(s)
    /\ hb' = [hb EXCEPT ![s] = [pc |-> "returned", to |-> 0]]
    /\ UNCHANGED <<transport, chanPc, cancelled, streamN, streamSt, cur, connFailures,
                   reconnectDelay, frameN, frames, busyOperations,
                   hTemporary>>
    /\ ChanFrame

(***************************************************************************)
(* Control channel: the message handlers, one goroutine per frame.         *)
(***************************************************************************)
\* the handlers that count themselves in busyOperations
Counted(type) == type \in {"CONNECT", "EXECUTE_BUSINES"}

\* the stream a handler answers on: bidi handlers are passed the stream the
\* frame came from, WebSocket handlers use c.conn
ReplyStream(f) == IF transport = "bidi" THEN frames[f].stream ELSE cur

\* stream.Send / sendNotifyRequest succeeds
SendOk(f) == frames[f].to # 0 /\ streamSt[frames[f].to] = "open"

\* the goroutine starts: c.busyOperations.Add(1) in handleConnect and
\* executeBusines / handleExecuteBusines; handleGetProvider has no counter
HandlerEnter(f) ==
    /\ frames[f].pc = "spawned"
    /\ frames' = [frames EXCEPT ![f].pc = "busy"]
    /\ busyOperations' = IF Counted(frames[f].type) THEN busyOperations + 1
                          ELSE busyOperations
    /\ UNCHANGED <<transport, chanPc, cancelled, streamN, streamSt, cur, connFailures,
                   reconnectDelay, frameN, hb, hTemporary>>
    /\ ChanFrame

\* the handler did its work and calls stream.Send (bidi) or
\* sendNotifyRequest (WebSocket: conn := c.conn) with the frame carrying the
\* requestId
HandlerSend(f) ==
    /\ frames[f].pc = "busy"
    /\ WriteLockFree(ReplyStream(f))
    /\ frames' = [frames EXCEPT ![f].pc = "sending", ![f].to = ReplyStream(f)]
    /\ UNCHANGED <<transport, chanPc, cancelled, streamN, streamSt, cur, connFailures,
                   reconnectDelay, frameN, busyOperations, hb, hTemporary>>
    /\ ChanFrame

\* the send returns; a failed send is logged
HandlerReply(f) ==
    /\ frames[f].pc = "sending"
    /\ frames' = [frames EXCEPT ![f].pc = "exiting",
                                ![f].replies = IF SendOk(f) THEN @ + 1 ELSE @]
    /\ UNCHANGED <<transport, chanPc, cancelled, streamN, streamSt, cur, connFailures,
                   reconnectDelay, frameN, busyOperations, hb, hTemporary>>
    /\ ChanFrame

\* Client.handleConnect, provider "aliyun" or "qiniu" with a configured
\* provider: aliyun.New or provider.TestConnection returns an error and the
\* handler returns it
handleConnect_ReturnErr(f) ==
    /\ transport = "bidi"
    /\ frames[f].type = "CONNECT"
    /\ frames[f].pc = "busy"
    /\ frames' = [frames EXCEPT ![f].pc = "returned"]
    /\ UNCHANGED <<transport, chanPc, cancelled, streamN, streamSt, cur, connFailures,
                   reconnectDelay, frameN, busyOperations, hb, hTemporary>>
    /\ ChanFrame

\* variant of HandlerExit: the counter is decremented only at the end of
\* the function, which an early return does not reach
HandlerExit_NoDefer(f) ==
    /\ frames[f].pc \in {"exiting", "returned"}
    /\ frames' = [frames EXCEPT ![f].pc = "done"]
    /\ busyOperations' = IF Counted(frames[f].type) /\ frames[f].pc = "exiting"
                          THEN busyOperations - 1
                          ELSE busyOperations
    /\ UNCHANGED <<transport, chanPc, cancelled, streamN, streamSt, cur, connFailures,
                   reconnectDelay, frameN, hb, hTemporary>>
    /\ ChanFrame

\* the handler returns: the deferred c.busyOperations.Add(-1) runs
HandlerExit(f) ==
    /\ frames[f].pc \in {"exiting", "returned"}
    /\ frames' = [frames EXCEPT ![f].pc = "done"]
    /\ busyOperations' = IF Counted(frames[f].type) THEN busyOperations - 1
                          ELSE busyOperations
    /\ UNCHANGED <<transport, chanPc, cancelled, streamN, streamSt, cur, connFailures,
                   reconnectDelay, frameN, hb, hTemporary>>
    /\ ChanFrame

\* the reconnect loop, the network and the heartbeat goroutines
ReconnectNext ==
    \/ LoopStop
    \/ ConnectFail
    \/ ConnectOk
    \/ Register
    \/ ReceiveError
    \/ CloseStream
    \/ ReconnectWake
    \/ StreamBreak
    \/ StreamStall
    \/ Cancel
    \/ \E s \in Streams : HeartbeatTick(s)
    \/ \E s \in Streams : HeartbeatOk(s)
    \/ \E s \in Streams : HeartbeatFailReturn(s)
    \/ \E s \in Streams : HeartbeatFailClose(s)
    \/ \E s \in Streams : HeartbeatStop(s)

\* inbound frames and their handlers
HandlerNext ==
    \/ \E type \in FrameTypes : Receive(type)
    \/ \E kind \in {"undecodable", "nopayload"} : ReceiveDropped(kind)
    \/ \E f \in FrameIds : HandlerEnter(f)
    \/ \E f \in FrameIds : HandlerSend(f)
    \/ \E f \in FrameIds : HandlerReply(f)
    \/ \E f \in FrameIds : handleConnect_ReturnErr(f)
    \/ \E f \in FrameIds : HandlerExit(f)

ChanNext ==
    \/ ReconnectNext
    \/ HandlerNext

(***************************************************************************)
(* Control channel: properties.                                            *)
(***************************************************************************)
\* C1: when the handler of a CONNECT, EXECUTE_BUSINES or GET_PROVIDER frame
\* has completed (and the stream the frame came on is still open), exactly
\* one outbound frame carrying the frame's requestId has been sent.
C1_ExactlyOneReply ==
    \A f \in FrameIds :
        (frames[f].pc = "done" /\ streamSt[frames[f].stream] = "open")
            => frames[f].replies = 1

\* the streams the agent has opened and not yet closed
C2_Active == {s \in Streams : streamSt[s] \in {"open", "stalled", "broken"}}

\* C2: at most one control stream is established at any moment, and a new
\* stream is opened only when every earlier one has been closed.
C2_OneStream ==
    /\ [](Cardinality(C2_Active) <= 1)
    /\ [][streamN' # streamN => C2_Active = {}]_vars

\* C2 witness: the agent reconnected: the first stream is closed and the
\* second one is serving
C2_Witness ==
    /\ streamN = 2 /\ chanPc = "serving"
    /\ streamSt[1] = "closed" /\ streamSt[2] = "open"

\* the handlers between Add(1) and the deferred Add(-1)
C10_InFlight ==
    {f \in FrameIds : Counted(frames[f].type) /\ frames[f].pc \in {"busy", "sending", "exiting", "returned"}}

\* C10: busyOperations is never negative and equals the number of CONNECT
\* and EXECUTE_BUSINES handlers that were entered and have not exited (so
\* it is 0 when all of them have finished, whatever path they took).
C10_BusyCount ==
    /\ busyOperations >= 0
    /\ busyOperations = Cardinality(C10_InFlight)

\* C10 witness: one handler left through the early return of handleConnect
\* while another one is still running
C10_Witness ==
    /\ busyOperations = 1
    /\ \E f, g \in FrameIds :
         /\ frames[f].pc = "done" /\ frames[f].type = "CONNECT" /\ frames[f].replies = 0
         /\ frames[g].pc = "busy" /\ Counted(frames[g].type)

\* C11: every reply frame that was sent went out on the stream its request
\* arrived on; a reply whose stream has died is not written to a later
\* stream.
C11_ReplyOnArrivalStream ==
    \A f \in FrameIds : frames[f].replies > 0 => frames[f].to = frames[f].stream

\* C12: at most one goroutine (a heartbeat sender or a handler sending its
\* reply) is inside a write to a given stream at any time.
C12_OneWriter ==
    \A s \in Streams :
        Cardinality(Writers(s).handlers) + Cardinality(Writers(s).heartbeats) <= 1

\* a connection attempt failed (at the dial or, bidi, at the REGISTER send)
C14_FailStep == connFailures' = connFailures + 1

\* C14 as stated: after each of the first 3 failures of a run the wait is
\* 1 s, after each later one it is double the previous wait, capped at 30 s,
\* whatever the error.
C14_BackoffAnyError ==
    [][C14_FailStep =>
          reconnectDelay' = IF connFailures' <= 3 THEN 1
                            ELSE Min(2 * reconnectDelay, 30)]_vars

\* C14: the schedule above holds for the bidi client and for WebSocket dial
\* errors that isTemporaryError accepts; a WebSocket dial error that is not
\* temporary is followed by a wait of 2 s at any position of the run.
C14_BackoffByKind ==
    /\ [][C14_FailStep =>
             reconnectDelay' = IF ~hTemporary' THEN 2
                               ELSE IF connFailures' <= 3 THEN 1
                               ELSE Min(2 * reconnectDelay, 30)]_vars
    /\ [](~hTemporary => transport = "ws")

\* C14 witness: the WebSocket client has failed 8 times in a row and the
\* last error was not temporary: it waits 2 s
C14_Witness ==
    /\ transport = "ws" /\ chanPc = "sleep"
    /\ connFailures = 8 /\ ~hTemporary /\ reconnectDelay = 2

\* C15 as stated: once 3 consecutive connection attempts have failed, the
\* wait that is applied is at least 2 s and at most 30 s.
C15_DelayAfterThree ==
    (chanPc = "sleep" /\ connFailures >= 3) => (reconnectDelay >= 2 /\ reconnectDelay <= 30)

\* C15: after more than 3 consecutive failures (from the 4th on) the wait
\* that is applied is at least 2 s and at most 30 s.
C15_DelayAfterFourth ==
    (chanPc = "sleep" /\ connFailures > 3) => (reconnectDelay >= 2 /\ reconnectDelay <= 30)

\* C15 witness: the wait after the 8th failure in a row, which is the cap
C15_Witness ==
    chanPc = "sleep" /\ connFailures = 8 /\ reconnectDelay = 30

\* the failure count goes back to zero
C16_ResetStep == connFailures > 0 /\ connFailures' = 0

\* C16 as stated: the failure count and the delay are reset by the receipt
\* of an inbound frame, not by opening a stream or sending REGISTER.
C16_ResetOnFrame ==
    [][C16_ResetStep => frameN' = frameN + 1]_vars

\* C16: the failure count and the delay are reset when the loop goes from
\* the registration to the receive loop (bidi: the REGISTER frame was sent;
\* WebSocket: the dial succeeded), before any frame is received; receiving
\* a frame changes neither; the first failure after the reset waits 1 s
\* (2 s for a WebSocket error that is not temporary).
C16_ResetOnRegister ==
    /\ [][C16_ResetStep =>
             (chanPc = "register" /\ chanPc' = "serving" /\ frameN' = frameN)]_vars
    /\ [][(chanPc = "register" /\ chanPc' = "serving") =>
             (connFailures' = 0 /\ reconnectDelay' = 1)]_vars
    /\ [][frameN' # frameN => UNCHANGED <<connFailures, reconnectDelay>>]_vars
    /\ [][(chanPc = "serving" /\ chanPc' # "serving") =>
             (connFailures' = 0 /\ reconnectDelay' = 1)]_vars
    /\ [][(connFailures = 0 /\ connFailures' = 1) =>
             reconnectDelay' = IF hTemporary' THEN 1 ELSE 2]_vars

\* C16 witness: two connections in a row were registered and died before
\* any frame was received, and the loop sleeps 1 s with a failure count of 0
C16_Witness ==
    /\ streamN = 2 /\ frameN = 0
    /\ streamSt[1] = "closed" /\ streamSt[2] = "closed"
    /\ chanPc = "sleep" /\ connFailures = 0 /\ reconnectDelay = 1

\* the stream the receive loop reads from is silent
C17_Silent == chanPc = "serving" /\ cur # 0 /\ streamSt[cur] = "stalled"

\* C17: when the stream the receive loop reads from has gone silent (no
\* frame arrives, heartbeat sends fail), the receive loop eventually returns.
C17_SilentStreamFails == C17_Silent ~> (chanPc = "closing")

\* C18: after a read error the loop is done with the connection: it closes
\* the stream, which stays closed, sleeps and is eventually back at the top
\* of the loop, where a new connection (a new stream) is dialled unless the
\* context is done.
C18_ReadErrorReconnects ==
    /\ (chanPc = "closing") ~> (chanPc = "top")
    /\ [][(chanPc = "closing" /\ chanPc' # "closing") =>
             (chanPc' = "sleep" /\ (cur # 0 => streamSt'[cur] = "closed"))]_vars
    /\ [][(chanPc = "sleep" /\ chanPc' # "sleep") => chanPc' = "top"]_vars
    /\ [][\A s \in Streams : streamSt[s] = "closed" => streamSt'[s] = "closed"]_vars
    /\ [][streamN' # streamN => (cur' = streamN' /\ streamSt[cur'] = "none")]_vars
    /\ [][(chanPc = "top" /\ chanPc' # "top" /\ ~cancelled) =>
             (streamN' = streamN + 1 \/ connFailures' = connFailures + 1)]_vars

\* C18 witness: the first stream failed with a read error, was closed, and
\* the loop is back at the dial with a live context
C18_Witness ==
    /\ chanPc = "top" /\ ~cancelled
    /\ streamN = 1 /\ streamSt[1] = "closed" /\ connFailures = 0

\* C19: no heartbeat and no handler reply is written to a new stream before
\* the REGISTER frame: no such send completes on the loop's stream while
\* the loop has not yet sent REGISTER on it.
C19_RegisterFirst ==
    [][/\ \A f \in FrameIds :
            (frames[f].pc = "sending" /\ frames'[f].replies > frames[f].replies)
                => ~(chanPc = "register" /\ cur = frames[f].to)
       /\ \A s \in Streams :
            (hb[s].pc = "sending" /\ hb'[s].pc = "waiting")
                => ~(chanPc = "register" /\ cur = hb[s].to)]_vars

\* C30: after the worker's root context is cancelled every long-running
\* task of the worker eventually terminates: the reconnect loop with its
\* receive loop, the heartbeat senders, scheduler.Start, the challenge
\* server and the sweep of the challenge cache.
C30_AllTasksTerminate ==
    cancelled ~> /\ chanPc = "stopped"
                 /\ \A s \in Streams : hb[s].pc \in {"none", "returned"}
                 /\ schedPc = "returned"
                 /\ srvPc = "returned"
                 /\ sweepPc = "returned"

\* C35: a heartbeat goroutine started for one WebSocket connection never
\* writes to a connection established later and never closes one: whatever
\* the goroutine of connection s does leaves every later connection as it
\* was.
C35_HeartbeatOwnConnection ==
    /\ [](transport = "ws" =>
             \A s \in Streams : hb[s].pc = "sending" => hb[s].to \in {0, s})
    /\ [][transport = "ws" =>
             \A s \in Streams :
                 hb'[s] # hb[s] =>
                     \A later \in Streams :
                         later > s => streamSt'[later] = streamSt[later]]_vars

\* C29 as stated: an inbound frame that cannot be deserialized, or that
\* lacks the payload its type requires, is dropped with a warning: no
\* handler runs for it, the connection stays open and the receive loop goes
\* on reading the same stream.
C29_MalformedDropped ==
    [][\A f \in FrameIds :
          (frames[f].pc = "none" /\ frames'[f].type \in {"undecodable", "nopayload"})
              => /\ frames'[f].pc = "warned"
                 /\ busyOperations' = busyOperations
                 /\ chanPc' = "serving" /\ cur' = cur /\ streamSt'[cur] = "open"]_vars

(***************************************************************************)
(* Zip extraction (deploys.ExtractZip, extractZipFile).  A path is the     *)
(* sequence of its components; the extraction root is CertsDir/safeDomain. *)
(***************************************************************************)
\* the components an entry name is made of: a plain name, "..", a name that
\* begins with two dots, the name of the root's last component, and the
\* empty component of a leading or doubled separator
ZipNames == {"a", "..", "..a", "dom", ""}

\* extractDir = filepath.Join(CertsDir, folderName)
ZipRoot == <<"certs", "dom">>

RECURSIVE SeqsUpTo(_)
\* the entry names of at most n components
SeqsUpTo(n) ==
    IF n = 0 THEN {<<>>}
    ELSE LET shorter == SeqsUpTo(n - 1)
         IN  shorter \cup {Append(q, c) : q \in {r \in shorter : Len(r) = n - 1}, c \in ZipNames}

ZipPaths == SeqsUpTo(MaxPathLen) \ {<<>>}

RECURSIVE CleanFrom(_, _)
\* filepath.Clean on a relative path: empty and "." components are dropped,
\* ".." removes the component before it, or stays when there is none
CleanFrom(p, acc) ==
    IF p = <<>> THEN acc
    ELSE LET c == Head(p)
         IN  IF c \in {"", "."}
               THEN CleanFrom(Tail(p), acc)
             ELSE IF c = ".."
               THEN IF acc # <<>> /\ acc[Len(acc)] # ".."
                      THEN CleanFrom(Tail(p), SubSeq(acc, 1, Len(acc) - 1))
                      ELSE CleanFrom(Tail(p), Append(acc, ".."))
             ELSE CleanFrom(Tail(p), Append(acc, c))

\* filepath.Clean(filepath.Join(extractDir, file.Name))
CleanTarget(name) == CleanFrom(ZipRoot \o name, <<>>)

RECURSIVE CommonLen(_, _)
\* the number of leading components two paths share
CommonLen(p, q) ==
    IF p = <<>> \/ q = <<>> \/ Head(p) # Head(q) THEN 0
    ELSE 1 + CommonLen(Tail(p), Tail(q))

\* filepath.Rel(base, targ) for cleaned relative paths, base without "..":
\* one ".." for every component of base that targ does not share, then the
\* rest of targ ("." when nothing is left)
Rel(base, targ) ==
    LET k == CommonLen(base, targ)
        ups == [i \in 1..(Len(base) - k) |-> ".."]
        rel == ups \o SubSeq(targ, k + 1, Len(targ))
    IN  IF rel = <<>> THEN <<".">> ELSE rel

\* strings.HasPrefix(c, "..") and strings.HasSuffix(c, "..") on a component
StartsDotDot(c) == c \in {"..", "..a"}
EndsDotDot(c) == c \in {".."}

\* variant of UnsafePath: the test looks at the entry name as it stands in
\* the archive
UnsafePath_RawName(name) ==
    \/ StartsDotDot(name[1])
    \/ \E i \in 1..(Len(name) - 1) : EndsDotDot(name[i])

\* strings.HasPrefix(rel, "..") || strings.Contains(rel, "../") on
\* rel = filepath.Rel(extractDir, cleanTarget)
UnsafePath(name) ==
    LET rel == Rel(ZipRoot, CleanTarget(name))
    IN  \/ StartsDotDot(rel[1])
        \/ \E i \in 1..(Len(rel) - 1) : EndsDotDot(rel[i])

\* zip.OpenReader succeeded on some archive; os.MkdirAll(extractDir) made
\* the root
ZipInit ==
    /\ \E n \in 0..MaxEntries : zipEntries \in [1..n -> ZipPaths]
    /\ zipIdx = 1
    /\ zipCreated = {ZipRoot}
    /\ zipPc = "extracting"

\* extractZipFile on the next entry: an unsafe path is an error, which ends
\* ExtractZip; otherwise the directory, or the file and its parents, are
\* created at the cleaned path (or the creation fails and ends ExtractZip)
extractZipFile ==
    /\ zipPc = "extracting"
    /\ zipIdx <= Len(zipEntries)
    /\ IF UnsafePath(zipEntries[zipIdx])
         THEN /\ zipPc' = "error"
              /\ UNCHANGED <<zipIdx, zipCreated>>
         ELSE \E ok \in BOOLEAN :
                IF ok
                  THEN /\ zipCreated' = zipCreated \cup {CleanTarget(zipEntries[zipIdx])}
                       /\ zipIdx' = zipIdx + 1
                       /\ UNCHANGED zipPc
                  ELSE /\ zipPc' = "error"
                       /\ UNCHANGED <<zipIdx, zipCreated>>
    /\ UNCHANGED zipEntries
    /\ ZipFrame

\* the loop over reader.File is over: return nil
ExtractZipReturn ==
    /\ zipPc = "extracting"
    /\ zipIdx > Len(zipEntries)
    /\ zipPc' = "ok"
    /\ UNCHANGED <<zipEntries, zipIdx, zipCreated>>
    /\ ZipFrame

ZipNext ==
    \/ extractZipFile
    \/ ExtractZipReturn

(***************************************************************************)
(* Zip extraction: properties.                                             *)
(***************************************************************************)
\* the path lies in the extraction root (or is the root)
C13_Inside(p) == Len(p) >= Len(ZipRoot) /\ SubSeq(p, 1, Len(ZipRoot)) = ZipRoot

\* the entries whose normalized path escapes the extraction root
C13_Escaping == {i \in 1..Len(zipEntries) : ~C13_Inside(CleanTarget(zipEntries[i]))}

\* C13: nothing is ever created outside the extraction root, and the
\* extraction of an archive with an escaping entry does not return nil: it
\* ends with an error, at the latest at the first escaping entry.
C13_NoEscape ==
    /\ \A p \in zipCreated : C13_Inside(p)
    /\ C13_Escaping # {} => /\ zipPc # "ok"
                            /\ \A i \in C13_Escaping : zipIdx <= i

\* C13 witness: the first entry was extracted into the root, the second one
\* climbs out of it through a subdirectory, and the extraction ended with an
\* error
C13_Witness ==
    /\ zipPc = "error"
    /\ Len(zipEntries) = 2 /\ zipIdx = 2
    /\ zipEntries[2] = <<"a", "..", "..">>
    /\ Cardinality(zipCreated) = 2

(***************************************************************************)
(* Aliyun ESA upload (aliyun.uploadESACertificate and its helpers).        *)
(***************************************************************************)
\* the strings at hand
EsaNames == {<<"a">>, <<" ", "A">>, <<"b">>}
EsaIds == {<<>>, <<"1">>, <<"2", " ">>}
EsaTypes == {<<"F", "r", "e", "e">>, <<"c", "a", "s">>}
EsaPrints == {"fpX", "fpY"}
\* time.Now().UTC(), formatted 20060102150405 and microseconds
EsaTimes == {"20260226203045-000000", "20260226203046-000001"}

EsaRecords == [Name : EsaNames, Id : EsaIds, Type : EsaTypes, Fingerprint : EsaPrints]

\* strings.TrimSpace
TrimSpace(s) ==
    LET black == {i \in 1..Len(s) : s[i] # " "}
    IN  IF black = {} THEN <<>>
        ELSE SubSeq(s, CHOOSE i \in black : \A j \in black : i <= j,
                       CHOOSE i \in black : \A j \in black : i >= j)

\* strings.ToLower on the letters at hand
ToLower(s) ==
    [i \in 1..Len(s) |-> CASE s[i] = "A" -> "a"
                           [] s[i] = "F" -> "f"
                           [] OTHER -> s[i]]

\* strings.EqualFold
EqualFold(s, t) == ToLower(s) = ToLower(t)

RECURSIVE selectESACertificateIDByName_AnyType(_, _, _)
\* variant of selectESACertificateIDByName: a certificate of type free counts
\* like any other
selectESACertificateIDByName_AnyType(result, name, matchedIDs) ==
    IF result = <<>>
      THEN IF Len(matchedIDs) = 0 THEN [err |-> "not found", id |-> <<>>]
           ELSE IF Len(matchedIDs) = 1 THEN [err |-> "", id |-> matchedIDs[1]]
           ELSE [err |-> "several", id |-> <<>>]
      ELSE LET item == Head(result)
           IN  IF ~EqualFold(TrimSpace(item.Name), TrimSpace(name))
                 THEN selectESACertificateIDByName_AnyType(Tail(result), name, matchedIDs)
               ELSE IF TrimSpace(item.Id) = <<>>
                 THEN [err |-> "no id", id |-> <<>>]
               ELSE selectESACertificateIDByName_AnyType(Tail(result), name,
                                                         Append(matchedIDs, TrimSpace(item.Id)))

RECURSIVE selectESACertificateIDByName(_, _, _)
\* the loop over the records from the given one on, matchedIDs being the IDs
\* found so far: a matching record without an Id or of type free ends the
\* loop with an error, and after the loop exactly one ID must have matched
selectESACertificateIDByName(result, name, matchedIDs) ==
    IF result = <<>>
      THEN IF Len(matchedIDs) = 0 THEN [err |-> "not found", id |-> <<>>]
           ELSE IF Len(matchedIDs) = 1 THEN [err |-> "", id |-> matchedIDs[1]]
           ELSE [err |-> "several", id |-> <<>>]
      ELSE LET item == Head(result)
           IN  IF ~EqualFold(TrimSpace(item.Name), TrimSpace(name))
                 THEN selectESACertificateIDByName(Tail(result), name, matchedIDs)
               ELSE IF TrimSpace(item.Id) = <<>>
                 THEN [err |-> "no id", id |-> <<>>]
               ELSE IF ToLower(TrimSpace(item.Type)) = <<"f", "r", "e", "e">>
                 THEN [err |-> "free", id |-> <<>>]
               ELSE selectESACertificateIDByName(Tail(result), name,
                                                 Append(matchedIDs, TrimSpace(item.Id)))

\* the records carry a fingerprint and no serial number: exactly one record
\* with an Id must have the fingerprint of the uploaded certificate
selectESACertificateIDByFingerprintOrSerial(result, targetFingerprint) ==
    LET fingerprintMatches == {i \in 1..Len(result) :
                                   /\ TrimSpace(result[i].Id) # <<>>
                                   /\ result[i].Fingerprint = targetFingerprint}
    IN  IF Cardinality(fingerprintMatches) = 1
          THEN [err |-> "", id |-> TrimSpace(result[CHOOSE i \in fingerprintMatches : TRUE].Id)]
          ELSE [err |-> "no unique fingerprint", id |-> <<>>]

\* baseName is the sanitized name (characters other than letters, digits,
\* ".", "_" and "-" become "-"), or "anssl" when nothing is left of it, cut
\* to 12 characters; the time follows it
buildUniqueESACertificateName(name, utcNow) ==
    LET trimmed == TrimSpace(name)
        remarkBase == [i \in 1..Len(trimmed) |-> IF trimmed[i] = " " THEN "-" ELSE trimmed[i]]
        baseName == IF remarkBase = <<>> THEN <<"a", "n", "s", "s", "l">> ELSE remarkBase
    IN  SubSeq(baseName, 1, Min(Len(baseName), 12)) \o <<"-", utcNow>>

\* the IDs of the site's certificates are distinct; a record of the listing
\* may lack its Id
EsaInit ==
    /\ esaCerts \in UNION {[1..n -> EsaRecords] : n \in 0..MaxRecords}
    /\ \A i, j \in 1..Len(esaCerts) :
           (i # j /\ TrimSpace(esaCerts[i].Id) # <<>>) =>
               TrimSpace(esaCerts[i].Id) # TrimSpace(esaCerts[j].Id)
    /\ esaName \in {<<"a">>, <<"A", " ">>}
    /\ esaCert = "fpX"
    /\ esaPc = "first"
    /\ existingID = <<>>
    /\ hByName = [err |-> "none", id |-> <<>>]
    /\ hResolved = "none"
    /\ hVia = "none"
    /\ hFallback = <<>>

\* a certificate of the site stands in the way of a new one of this name
\* and content
EsaDuplicated(name) ==
    \E i \in 1..Len(esaCerts) :
        esaCerts[i].Name = name \/ esaCerts[i].Fingerprint = esaCert

\* p.setESACertificate(name, "", cert, key): the service creates the
\* certificate, or answers Certificate.Duplicated, or fails otherwise
SetCertificateFirst(answer) ==
    /\ esaPc = "first"
    /\ answer = "ok" => ~EsaDuplicated(esaName)
    /\ answer = "duplicated" => EsaDuplicated(esaName)
    /\ esaPc' = CASE answer = "ok" -> "ok"
                  [] answer = "duplicated" -> "resolve"
                  [] OTHER -> "error"
    /\ esaCerts' = IF answer = "ok"
                     THEN Append(esaCerts, [Name |-> esaName, Id |-> <<"9">>,
                                            Type |-> <<"u", "p">>, Fingerprint |-> esaCert])
                     ELSE esaCerts
    /\ hVia' = IF answer = "ok" THEN "first" ELSE hVia
    /\ UNCHANGED <<esaName, esaCert, existingID, hByName, hResolved, hFallback>>
    /\ EsaFrame

\* findESACertificateIDByName, and findESACertificateIDByUploadedCert when
\* that fails; either listing may fail
ResolveExistingID(listed, listedAgain) ==
    /\ esaPc = "resolve"
    /\ LET byName == IF listed THEN selectESACertificateIDByName(esaCerts, esaName, <<>>)
                     ELSE [err |-> "list", id |-> <<>>]
           byCert == IF listedAgain
                       THEN selectESACertificateIDByFingerprintOrSerial(esaCerts, esaCert)
                       ELSE [err |-> "list", id |-> <<>>]
       IN  /\ hByName' = byName
           /\ existingID' = IF byName.err = "" THEN byName.id ELSE byCert.id
           /\ hResolved' = IF byName.err = "" THEN "name"
                           ELSE IF byCert.err = "" THEN "cert" ELSE "failed"
           /\ esaPc' = IF byName.err = "" \/ byCert.err = "" THEN "retry" ELSE "fallback"
    /\ UNCHANGED <<esaCerts, esaName, esaCert, hVia, hFallback>>
    /\ EsaFrame

\* variant of SetCertificateRetry: the call carries no ID and the service
\* creates a certificate
SetCertificateRetry_NoId(ok) ==
    /\ esaPc = "retry"
    /\ esaPc' = IF ok THEN "ok" ELSE "fallback"
    /\ esaCerts' = IF ok
                     THEN Append(esaCerts, [Name |-> esaName, Id |-> <<"9">>,
                                            Type |-> <<"u", "p">>, Fingerprint |-> esaCert])
                     ELSE esaCerts
    /\ hVia' = IF ok THEN "id" ELSE hVia
    /\ UNCHANGED <<esaName, esaCert, existingID, hByName, hResolved, hFallback>>
    /\ EsaFrame

\* p.setESACertificate(name, existingID, cert, key): the service replaces
\* the certificate of that ID, or fails
SetCertificateRetry(ok) ==
    /\ esaPc = "retry"
    /\ esaPc' = IF ok THEN "ok" ELSE "fallback"
    /\ esaCerts' = IF ok
                     THEN [i \in 1..Len(esaCerts) |->
                              IF TrimSpace(esaCerts[i].Id) = TrimSpace(existingID)
                                THEN [esaCerts[i] EXCEPT !.Name = esaName,
                                                         !.Fingerprint = esaCert,
                                                         !.Type = <<"u", "p">>]
                                ELSE esaCerts[i]]
                     ELSE esaCerts
    /\ hVia' = IF ok THEN "id" ELSE hVia
    /\ UNCHANGED <<esaName, esaCert, existingID, hByName, hResolved, hFallback>>
    /\ EsaFrame

\* p.setESACertificate(fallbackName, "", cert, key) under the name that
\* buildUniqueESACertificateName makes at this moment
SetCertificateFallback(utcNow, ok) ==
    /\ esaPc = "fallback"
    /\ hFallback' = buildUniqueESACertificateName(esaName, utcNow)
    /\ esaPc' = IF ok THEN "ok" ELSE "error"
    /\ esaCerts' = IF ok
                     THEN Append(esaCerts, [Name |-> hFallback', Id |-> <<"9">>,
                                            Type |-> <<"u", "p">>, Fingerprint |-> esaCert])
                     ELSE esaCerts
    /\ hVia' = IF ok THEN "fallback" ELSE hVia
    /\ UNCHANGED <<esaName, esaCert, existingID, hByName, hResolved>>
    /\ EsaFrame

EsaNext ==
    \/ \E answer \in {"ok", "duplicated", "failed"} : SetCertificateFirst(answer)
    \/ \E listed, listedAgain \in BOOLEAN : ResolveExistingID(listed, listedAgain)
    \/ \E ok \in BOOLEAN : SetCertificateRetry(ok)
    \/ \E utcNow \in EsaTimes, ok \in BOOLEAN : SetCertificateFallback(utcNow, ok)

(***************************************************************************)
(* Aliyun ESA upload: properties.                                          *)
(***************************************************************************)
\* the records whose name is the target, ignoring case and surrounding
\* whitespace
C34_Matching(name) ==
    {i \in 1..Len(esaCerts) : EqualFold(TrimSpace(esaCerts[i].Name), TrimSpace(name))}

\* C34: selectESACertificateIDByName returns an ID exactly when one listed
\* record has the target's name (ignoring case and surrounding whitespace),
\* that record has an ID and no record of that name is of type free; the ID
\* is that record's, trimmed.  In every other case (no match, several
\* matches, a match of type free, a match without an ID) it returns an error.
C34_SelectByName ==
    (hByName.err \notin {"none", "list"} /\ esaPc \in {"retry", "fallback"}) =>
        LET matching == C34_Matching(esaName)
            unique == /\ Cardinality(matching) = 1
                      /\ \A i \in matching :
                             /\ TrimSpace(esaCerts[i].Id) # <<>>
                             /\ ToLower(TrimSpace(esaCerts[i].Type)) # <<"f", "r", "e", "e">>
        IN  /\ hByName.err = "" <=> unique
            /\ hByName.err = "" =>
                   \A i \in matching : hByName.id = TrimSpace(esaCerts[i].Id)
            /\ hByName.err # "" => hByName.id = <<>>

\* C34 witness: the one record of the target's name differs from it in case
\* and whitespace, is listed next to another record, and its ID was returned
C34_Witness ==
    /\ esaPc = "retry" /\ hByName.err = ""
    /\ Len(esaCerts) = 2
    /\ esaName = <<"A", " ">>
    /\ hByName.id = <<"2">>
    /\ \E i \in 1..2 : esaCerts[i].Name = <<"a">> /\ esaCerts[i].Id = <<"2", " ">>

\* C33 as stated: after Certificate.Duplicated and a successful retry with
\* the resolved ID exactly one certificate has the name; when the ID cannot
\* be resolved the fallback name carries the time and the upload succeeds
\* when that call does.
C33_ExactlyOne ==
    /\ []((esaPc = "ok" /\ hVia = "id") => Cardinality(C34_Matching(esaName)) = 1)
    /\ [][(esaPc = "fallback" /\ hResolved = "failed") =>
             \E utcNow \in EsaTimes :
                 /\ hFallback' = buildUniqueESACertificateName(esaName, utcNow)
                 /\ hFallback'[Len(hFallback')] = utcNow
                 /\ esaPc' \in {"ok", "error"}
                 /\ esaPc' = "ok" <=> hVia' = "fallback"]_vars

\* C33, amended: after Certificate.Duplicated and a successful retry with
\* the resolved ID the upload has succeeded without creating a certificate
\* (the certificates are as many as before and the one of that ID has the
\* name now), and exactly one certificate has the name when the ID was
\* resolved by name; the second half as stated.
C33_NoneCreated ==
    /\ []((esaPc = "ok" /\ hVia = "id") =>
             /\ \A i \in 1..Len(esaCerts) : esaCerts[i].Id # <<"9">>
             /\ \E i \in 1..Len(esaCerts) :
                    /\ TrimSpace(esaCerts[i].Id) = existingID
                    /\ esaCerts[i].Name = esaName
             /\ hResolved = "name" => Cardinality(C34_Matching(esaName)) = 1)
    /\ [][(esaPc = "fallback" /\ hResolved = "failed") =>
             \E utcNow \in EsaTimes :
                 /\ hFallback' = buildUniqueESACertificateName(esaName, utcNow)
                 /\ hFallback'[Len(hFallback')] = utcNow
                 /\ esaPc' \in {"ok", "error"}
                 /\ esaPc' = "ok" <=> hVia' = "fallback"]_vars

\* C33 witness: the ID was resolved by name, the retry with it succeeded and
\* the site has its two certificates, one of them under the name
C33_Witness ==
    /\ esaPc = "ok" /\ hVia = "id" /\ hResolved = "name"
    /\ Len(esaCerts) = 2
    /\ Cardinality(C34_Matching(esaName)) = 1

(***************************************************************************)
(* Self-update (updater.CheckUpdate, updater.PerformUpdate).               *)
(***************************************************************************)
\* getBinaryName() and checksumName
BinaryName == "anssl-linux-amd64.tar.gz"
ChecksumName == "checksums.txt"

\* the lines of a checksums.txt, as strings.Fields splits them
ChecksumLines ==
    {<<>>, <<"h1">>, <<"h1", BinaryName>>, <<"h2", BinaryName>>, <<"h1", "other.zip">>}

UpdInit ==
    /\ release \in [newer : BOOLEAN, assets : SUBSET {BinaryName, ChecksumName}]
    /\ archiveSum \in {"h1", "h2"}
    /\ checksums \in UNION {[1..n -> ChecksumLines] : n \in 0..MaxLines}
    /\ info = [DownloadURL |-> "", ChecksumURL |-> ""]
    /\ updPc = "check"
    /\ execFile = "old"
    /\ hVerified = FALSE

\* the first line with at least two fields whose second field is the file
\* name gives the expected sum; without such a line, or when the sum of the
\* file differs, an error
verifyChecksum(actualChecksum, content, binaryName) ==
    LET entries == {i \in 1..Len(content) :
                        Len(content[i]) >= 2 /\ content[i][2] = binaryName}
    IN  /\ entries # {}
        /\ content[CHOOSE i \in entries : \A j \in entries : i <= j][1] = actualChecksum

\* CheckUpdate: the release is fetched (or not); an update needs a newer tag
\* and an asset of the binary's name, and the checksum URL is that of the
\* asset "checksums.txt" if the release has one
CheckUpdate(fetched) ==
    /\ updPc = "check"
    /\ IF ~fetched \/ (release.newer /\ BinaryName \notin release.assets)
         THEN updPc' = "error" /\ UNCHANGED info
       ELSE IF ~release.newer
         THEN updPc' = "none" /\ UNCHANGED info
       ELSE /\ updPc' = "download"
            /\ info' = [DownloadURL |-> BinaryName,
                        ChecksumURL |-> IF ChecksumName \in release.assets
                                          THEN ChecksumName ELSE ""]
    /\ UNCHANGED <<release, archiveSum, checksums, execFile, hVerified>>
    /\ UpdFrame

\* PerformUpdate: downloadFile(info.DownloadURL) and extractBinary
DownloadArchive(ok) ==
    /\ updPc = "download"
    /\ updPc' = IF ok THEN "verify" ELSE "error"
    /\ UNCHANGED <<release, archiveSum, checksums, info, execFile, hVerified>>
    /\ UpdFrame

\* PerformUpdate: with a checksum URL, checksums.txt is downloaded and the
\* archive verified against it; without one this step is skipped
VerifyArchive(ok) ==
    /\ updPc = "verify"
    /\ IF info.ChecksumURL # ""
         THEN IF ok /\ verifyChecksum(archiveSum, checksums, BinaryName)
                THEN updPc' = "replace" /\ hVerified' = TRUE
                ELSE updPc' = "error" /\ UNCHANGED hVerified
         ELSE updPc' = "replace" /\ UNCHANGED hVerified
    /\ UNCHANGED <<release, archiveSum, checksums, info, execFile>>
    /\ UpdFrame

\* PerformUpdate: chmod, backup, replaceExecutable; a failed replacement is
\* undone from the backup
ReplaceExecutable(ok) ==
    /\ updPc = "replace"
    /\ updPc' = IF ok THEN "done" ELSE "error"
    /\ execFile' = IF ok THEN "new" ELSE execFile
    /\ UNCHANGED <<release, archiveSum, checksums, info, hVerified>>
    /\ UpdFrame

UpdNext ==
    \/ \E fetched \in BOOLEAN : CheckUpdate(fetched)
    \/ \E ok \in BOOLEAN : DownloadArchive(ok)
    \/ \E ok \in BOOLEAN : VerifyArchive(ok)
    \/ \E ok \in BOOLEAN : ReplaceExecutable(ok)

(***************************************************************************)
(* Self-update: properties.                                                *)
(***************************************************************************)
\* C31: the executable is replaced only by an archive whose SHA-256 was
\* verified against the entry of its file name in checksums.txt.
C31_VerifiedBeforeInstall ==
    /\ updPc = "replace" => hVerified
    /\ execFile = "new" => hVerified

\* C31, where a checksum is published: when the release has the asset
\* checksums.txt, the executable is replaced only by an archive whose
\* SHA-256 is the one of the first entry of its file name
C31_VerifiedIfPublished ==
    (execFile = "new" /\ ChecksumName \in release.assets) =>
        \E i \in 1..Len(checksums) :
            /\ checksums[i] = <<archiveSum, BinaryName>>
            /\ \A j \in 1..(i - 1) : checksums[j] \notin {<<"h1", BinaryName>>, <<"h2", BinaryName>>}

(***************************************************************************)
(* Client id (system.GetUniqueClientID).  An id has IdLen hexadecimal      *)
(* characters where the program's has 64.                                  *)
(***************************************************************************)
HexChars == {"a", "f"}

\* the bytes a cache file is made of: hexadecimal characters, another
\* character, the line ends
CacheBytes == HexChars \cup {"z", "\n", "\r"}

\* hex.EncodeToString(sha256.Sum256(combined)): a fixed id per host
Sha256Hex(combined) == IF combined = "linux|amd64|hostA|mid:1" THEN <<"a", "f">> ELSE <<"f", "a">>

\* the length of an id
IdLen == Len(Sha256Hex(""))

\* trimNL: one trailing line end is cut
trimNL(b) ==
    IF Len(b) > 0 /\ b[Len(b)] \in {"\n", "\r"} THEN SubSeq(b, 1, Len(b) - 1) ELSE b

\* readCachedID: the file without its line end, "" when it cannot be read
readCachedID == IF cacheFile = <<"absent">> THEN <<>> ELSE trimNL(cacheFile)

CidInit ==
    /\ cacheFile \in {<<"absent">>} \cup UNION {[1..n -> CacheBytes] : n \in 0..MaxCacheLen}
    /\ hostInputs \in {"linux|amd64|hostA|mid:1", "linux|amd64|hostB|mid:2"}
    /\ clientId = <<"none">>
    /\ hCached = <<"none">>

\* GetUniqueClientID: a non-empty cached id is returned as it is; otherwise
\* the id is the hash of the host inputs, and is written to the cache if the
\* file can be written
GetUniqueClientID(written) ==
    /\ clientId = <<"none">>
    /\ hCached' = cacheFile
    /\ IF readCachedID # <<>>
         THEN /\ clientId' = readCachedID
              /\ UNCHANGED cacheFile
         ELSE /\ clientId' = Sha256Hex(hostInputs)
              /\ cacheFile' = IF written THEN Append(Sha256Hex(hostInputs), "\n") ELSE cacheFile
    /\ UNCHANGED hostInputs
    /\ CidFrame

\* the next start of the agent
Restart ==
    /\ clientId # <<"none">>
    /\ clientId' = <<"none">>
    /\ UNCHANGED <<cacheFile, hostInputs, hCached>>
    /\ CidFrame

CidNext ==
    \/ \E written \in BOOLEAN : GetUniqueClientID(written)
    \/ Restart

(***************************************************************************)
(* Client id: properties.                                                  *)
(***************************************************************************)
\* the cached value is not an id: it has a character that is not
\* hexadecimal, or not the length of an id
C32_Corrupt(file) ==
    /\ file # <<"absent">>
    /\ \/ Len(trimNL(file)) # IdLen
       \/ \E i \in 1..Len(trimNL(file)) : trimNL(file)[i] \notin HexChars

\* C32: with a corrupt cached id GetUniqueClientID returns the id made from
\* the host inputs, the one a run without a cache returns.
C32_CorruptCacheIgnored ==
    (clientId # <<"none">> /\ C32_Corrupt(hCached)) => clientId = Sha256Hex(hostInputs)

\* C32, for a cache that is missing or empty: the id is the one made from the
\* host inputs
C32_MissingCacheRegenerated ==
    (clientId # <<"none">> /\ hCached \in {<<"absent">>, <<>>, <<"\n">>, <<"\r">>}) =>
        clientId = Sha256Hex(hostInputs)

(***************************************************************************)
(* Concurrent deployments of one domain: handleMessage starts a goroutine  *)
(* per EXECUTE_BUSINES message, and two messages for the same safeDomain   *)
(* run CertDeployer.DeployCertificate on the same zip file and the same    *)
(* scratch directory.  Nginx is the configured target.                     *)
(***************************************************************************)
Deployments == {"d1", "d2"}

Other(p) == CHOOSE q \in Deployments : q # p

\* the deployment has downloaded its zip and not yet extracted it
UsesZip(p) == dcPc[p] = "extract"

\* the deployment has extracted its bundle and not yet installed it
UsesDir(p) == dcPc[p] \in {"remove_old", "rename"}

ConInit ==
    /\ dcPc = [p \in Deployments |-> "received"]
    /\ dcResult = [p \in Deployments |-> "none"]
    /\ sharedZip = "absent"
    /\ sharedDir = "absent"
    /\ nginxDir = "old"
    /\ hInterfered = FALSE

\* handleMessage: go c.executeBusines(...) for the message of the deployment
DeployCertificate_Start(p) ==
    /\ dcPc[p] = "received"
    /\ dcPc' = [dcPc EXCEPT ![p] = "download"]
    /\ UNCHANGED <<dcResult, sharedZip, sharedDir, nginxDir, hInterfered>>
    /\ ConFrame

\* cd.downloadFunc(url, zipFile): the zip file holds this download now
DeployCertificate_Download(p, ok) ==
    /\ dcPc[p] = "download"
    /\ IF ok
         THEN /\ sharedZip' = p
              /\ dcPc' = [dcPc EXCEPT ![p] = "extract"]
              /\ hInterfered' = (hInterfered \/ UsesZip(Other(p)))
              /\ UNCHANGED dcResult
         ELSE /\ dcPc' = [dcPc EXCEPT ![p] = "done"]
              /\ dcResult' = [dcResult EXCEPT ![p] = "FAILED"]
              /\ UNCHANGED <<sharedZip, hInterfered>>
    /\ UNCHANGED <<sharedDir, nginxDir>>
    /\ ConFrame

\* ExtractZip(zipFile, extractDir): the zip at the path is extracted into the
\* scratch directory; without a zip the directory is removed and the
\* deployment has failed
DeployCertificate_ExtractZip(p) ==
    /\ dcPc[p] = "extract"
    /\ IF sharedZip # "absent"
         THEN /\ sharedDir' = sharedZip
              /\ dcPc' = [dcPc EXCEPT ![p] = "remove_old"]
              /\ UNCHANGED dcResult
         ELSE /\ sharedDir' = "absent"
              /\ dcPc' = [dcPc EXCEPT ![p] = "return_zip"]
              /\ dcResult' = [dcResult EXCEPT ![p] = "FAILED"]
    /\ hInterfered' = (hInterfered \/ UsesDir(Other(p)))
    /\ UNCHANGED <<sharedZip, nginxDir>>
    /\ ConFrame

\* moveCertificates: os.RemoveAll(targetDir)
DeployCertificate_RemoveOld(p) ==
    /\ dcPc[p] = "remove_old"
    /\ nginxDir' = "absent"
    /\ dcPc' = [dcPc EXCEPT ![p] = "rename"]
    /\ UNCHANGED <<dcResult, sharedZip, sharedDir, hInterfered>>
    /\ ConFrame

\* moveCertificates: os.Rename(sourceDir, targetDir); without the source
\* directory the rename and the copy after it fail
DeployCertificate_Rename(p) ==
    /\ dcPc[p] = "rename"
    /\ IF sharedDir # "absent"
         THEN /\ nginxDir' = sharedDir
              /\ sharedDir' = "absent"
              /\ dcResult' = [dcResult EXCEPT ![p] = "SUCCESS"]
              /\ hInterfered' = (hInterfered \/ UsesDir(Other(p)))
         ELSE /\ dcResult' = [dcResult EXCEPT ![p] = "FAILED"]
              /\ UNCHANGED <<nginxDir, sharedDir, hInterfered>>
    /\ dcPc' = [dcPc EXCEPT ![p] = "return"]
    /\ UNCHANGED sharedZip
    /\ ConFrame

\* the deferred calls: os.RemoveAll(extractDir), registered after the
\* extraction had succeeded, and os.Remove(zipFile)
DeployCertificate_Return(p) ==
    /\ dcPc[p] \in {"return", "return_zip"}
    /\ sharedDir' = IF dcPc[p] = "return" THEN "absent" ELSE sharedDir
    /\ sharedZip' = "absent"
    /\ hInterfered' = (hInterfered \/ (sharedZip # "absent" /\ UsesZip(Other(p)))
                                   \/ (/\ dcPc[p] = "return"
                                       /\ sharedDir # "absent"
                                       /\ UsesDir(Other(p))))
    /\ dcPc' = [dcPc EXCEPT ![p] = "done"]
    /\ UNCHANGED <<dcResult, nginxDir>>
    /\ ConFrame

ConNext ==
    \E p \in Deployments :
        \/ DeployCertificate_Start(p)
        \/ \E ok \in BOOLEAN : DeployCertificate_Download(p, ok)
        \/ DeployCertificate_ExtractZip(p)
        \/ DeployCertificate_RemoveOld(p)
        \/ DeployCertificate_Rename(p)
        \/ DeployCertificate_Return(p)

(***************************************************************************)
(* Concurrent deployments: properties.                                     *)
(***************************************************************************)
\* C36: two concurrent deployments of one safeDomain do not interfere:
\* neither removes or overwrites the zip or the scratch directory while the
\* other one uses it, and a deployment that does not report FAILED has
\* installed a bundle.
C36_NoInterference ==
    /\ ~hInterfered
    /\ \A p \in Deployments :
           (dcPc[p] = "done" /\ dcResult[p] # "FAILED") =>
               (dcResult[p] = "SUCCESS" /\ nginxDir \in Deployments)

\* C36, the consequence: both deployments have ended, one of them reported
\* SUCCESS, and no certificate is installed
C36_SuccessWithoutCertificate ==
    ~(/\ \A p \in Deployments : dcPc[p] = "done"
      /\ \E p \in Deployments : dcResult[p] = "SUCCESS"
      /\ nginxDir = "absent")

(***************************************************************************)
(* Specifications, one per component.                                      *)
\* the components a specification leaves alone stay as constructed: no
\* deployment target is enabled and no previous contents exist
DepIdle ==
    /\ enabled = {}
    /\ prev = "absent"
    /\ req = [transport |-> "ws", domain |-> "", provider |-> "", type |-> "other"]
    /\ bundle = {"cert.pem", "privateKey.key"}
    /\ DepInit

\* ... and the control channel uses the bidi stream
ChanIdle ==
    /\ ChanInit
    /\ transport = "bidi"

\* ... and the archive at hand is empty
ZipIdle ==
    /\ zipEntries = <<>>
    /\ ZipInit

\* ... and the site has no certificate, and the upload is of name "a"
EsaIdle ==
    /\ esaCerts = <<>>
    /\ esaName = <<"a">>
    /\ EsaInit

\* ... and no release is newer than the running version
UpdIdle ==
    /\ release = [newer |-> FALSE, assets |-> {}]
    /\ archiveSum = "h1"
    /\ checksums = <<>>
    /\ UpdInit

\* ... and no client id is cached
CidIdle ==
    /\ cacheFile = <<"absent">>
    /\ hostInputs = "linux|amd64|hostA|mid:1"
    /\ CidInit

\* ... and no EXECUTE_BUSINES message has arrived
ConIdle == ConInit

InitSupervisor == SupInit /\ ChalInit /\ DepIdle /\ ChanIdle /\ ZipIdle /\ EsaIdle /\ UpdIdle /\ CidIdle /\ ConIdle

NextSupervisor == SupNext

SpecSupervisor == InitSupervisor /\ [][NextSupervisor]_vars

InitChallenge == ChalInit /\ SupInit /\ DepIdle /\ ChanIdle /\ ZipIdle /\ EsaIdle /\ UpdIdle /\ CidIdle /\ ConIdle

NextChallenge == ChalNext

SpecChallenge == InitChallenge /\ [][NextChallenge]_vars

\* the dispatch of CHALLENGE messages on its own: the receive loop starts a
\* goroutine per message and the goroutines run in any order
NextDispatch ==
    \/ SetHTTPServer
    \/ \E token \in Tokens, challengeResp \in Responses :
           ReceiveChallenge(token, challengeResp)
    \/ \E msg \in pending : HandleChallenge(msg.token, msg.response)

SpecDispatch == InitChallenge /\ [][NextDispatch]_vars

InitDeploy == SupInit /\ ChalInit /\ ChanIdle /\ ZipIdle /\ EsaIdle /\ UpdIdle /\ DepInit /\ CidIdle /\ ConIdle

NextDeploy == DepNext

SpecDeploy == InitDeploy /\ [][NextDeploy]_vars

InitChannel == ChanInit /\ SupInit /\ ChalInit /\ DepIdle /\ ZipIdle /\ EsaIdle /\ UpdIdle /\ CidIdle /\ ConIdle

NextChannel == ChanNext

SpecChannel == InitChannel /\ [][NextChannel]_vars

\* the worker's long-running goroutines: the reconnect loop, with a server
\* that sends no frames, the heartbeat senders, scheduler.Start, the
\* challenge server and the sweep of the challenge cache.  The goroutines
\* are scheduled fairly, and every time.Sleep and every send returns; the
\* network owes nothing.
ReconnectFair ==
    /\ WF_vars(LoopStop)
    /\ WF_vars(Register)
    /\ WF_vars(ReceiveError)
    /\ WF_vars(CloseStream)
    /\ WF_vars(ReconnectWake)
    /\ WF_vars(SchedulerStop)
    /\ WF_vars(\E bound \in BOOLEAN : HTTPServerStart(bound))
    /\ \A s \in Streams :
         /\ WF_vars(HeartbeatTick(s))
         /\ WF_vars(HeartbeatOk(s))
         /\ WF_vars(HeartbeatFailReturn(s))
         /\ WF_vars(HeartbeatFailClose(s))
         /\ WF_vars(HeartbeatStop(s))

NextReconnect ==
    \/ ReconnectNext
    \/ \E bound \in BOOLEAN : HTTPServerStart(bound)
    \/ SchedulerStop
    \/ CleanExpired

SpecReconnect == InitChannel /\ [][NextReconnect]_vars /\ ReconnectFair

InitExtract == ZipInit /\ SupInit /\ ChalInit /\ DepIdle /\ ChanIdle /\ EsaIdle /\ UpdIdle /\ CidIdle /\ ConIdle

NextExtract == ZipNext

SpecExtract == InitExtract /\ [][NextExtract]_vars

InitESA == SupInit /\ ChalInit /\ DepIdle /\ ChanIdle /\ ZipIdle /\ UpdIdle /\ EsaInit /\ CidIdle /\ ConIdle

SpecESA == InitESA /\ [][EsaNext]_vars

InitUpdate == SupInit /\ ChalInit /\ DepIdle /\ ChanIdle /\ ZipIdle /\ EsaIdle /\ UpdInit /\ CidIdle /\ ConIdle

SpecUpdate == InitUpdate /\ [][UpdNext]_vars

InitClientId == SupInit /\ ChalInit /\ DepIdle /\ ChanIdle /\ ZipIdle /\ EsaIdle /\ UpdIdle /\ CidInit /\ ConIdle

SpecClientId == InitClientId /\ [][CidNext]_vars

InitConcurrent == SupInit /\ ChalInit /\ DepIdle /\ ChanIdle /\ ZipIdle /\ EsaIdle /\ UpdIdle /\ CidIdle /\ ConInit

SpecConcurrent == InitConcurrent /\ [][ConNext]_vars

====
